---- MODULE Spec2Model ----
(***************************************************************************)
(* The Cloudflare R2 bucket client of sveltia-cms                          *)
(* (src/src/lib/services/assets/media-library.js, the paginated r2 module, *)
(* lines 898-1706): search (credential parsing, paginated list-objects-v2  *)
(* loop, asset classification, sort) and upload (sequential signed PUTs).  *)
(*                                                                         *)
(* Strings are sequences of characters (one-character TLA+ strings); a     *)
(* literal of the code that no operation looks inside may stand as one     *)
(* element.  An optional value (undefined or null in the code) is a        *)
(* sequence of length at most one: None is <<>>, Some(v) is <<v>>.         *)
(***************************************************************************)
EXTENDS Integers, Sequences, FiniteSets, TLC

None == <<>>
Some(v) == <<v>>
IsSome(o) == o # <<>>
\* JavaScript truthiness of an optional string: defined and not ''.
Truthy(o) == o # <<>> /\ o[1] # <<>>
\* An optional string where the code needs text (template literal, property
\* value): undefined reads as 'undefined'.
Text(o) == IF o # <<>> THEN o[1] ELSE <<"undefined">>

---------------------------------------------------------------------------
(* String primitives, as the code uses them.                               *)

\* String.prototype.endsWith for a one-character suffix.
EndsWith(s, c) == Len(s) > 0 /\ s[Len(s)] = c

\* s.replace(/\/$/, '')
StripTrailingSlash(s) == IF EndsWith(s, "/") THEN SubSeq(s, 1, Len(s) - 1) ELSE s

\* String.prototype.indexOf, 1-based; 0 when sub does not occur.
IndexOf(s, sub) ==
    LET hits == {i \in 1..(Len(s) - Len(sub) + 1) : SubSeq(s, i, i + Len(sub) - 1) = sub}
    IN  IF hits = {} THEN 0 ELSE CHOOSE i \in hits : \A j \in hits : i <= j

\* String.prototype.includes
Includes(s, sub) == IndexOf(s, sub) # 0

\* s.replace(pat, rep) with a string pattern: only the first occurrence.
ReplaceFirst(s, pat, rep) ==
    LET i == IndexOf(s, pat)
    IN  IF i = 0 THEN s
        ELSE SubSeq(s, 1, i - 1) \o rep \o SubSeq(s, i + Len(pat), Len(s))

\* String.prototype.toLowerCase on ASCII text.
UpperCaseLetters ==
    <<"A", "B", "C", "D", "E", "F", "G", "H", "I", "J", "K", "L", "M",
      "N", "O", "P", "Q", "R", "S", "T", "U", "V", "W", "X", "Y", "Z">>
LowerCaseLetters ==
    <<"a", "b", "c", "d", "e", "f", "g", "h", "i", "j", "k", "l", "m",
      "n", "o", "p", "q", "r", "s", "t", "u", "v", "w", "x", "y", "z">>
UpperSet == {UpperCaseLetters[i] : i \in 1..26}
LowerOfUpper ==
    [c \in UpperSet |->
        LowerCaseLetters[CHOOSE i \in 1..26 : UpperCaseLetters[i] = c]]
LowerChar(c) == IF c \in UpperSet THEN LowerOfUpper[c] ELSE c
ToLowerCase(s) == [i \in 1..Len(s) |-> LowerChar(s[i])]

\* String.prototype.split for a one-character separator.
RECURSIVE Split(_, _)
Split(s, sep) ==
    IF \E i \in 1..Len(s) : s[i] = sep
    THEN LET i == CHOOSE i \in 1..Len(s) : s[i] = sep /\ \A j \in 1..(i - 1) : s[j] # sep
         IN  <<SubSeq(s, 1, i - 1)>> \o Split(SubSeq(s, i + 1, Len(s)), sep)
    ELSE <<s>>

\* Array destructuring: element i, undefined when the array is shorter.
Field(parts, i) == IF i <= Len(parts) THEN Some(parts[i]) ELSE None

\* All sequences over S of length at most n.
RECURSIVE SeqsUpTo(_, _)
SeqsUpTo(S, n) ==
    IF n = 0 THEN {<<>>}
    ELSE LET shorter == SeqsUpTo(S, n - 1)
         IN  shorter \cup {Append(s, x) : s \in {t \in shorter : Len(t) = n - 1}, x \in S}

---------------------------------------------------------------------------
(* Bounds of the model.                                                    *)

\* Longest credential string enumerated (the shortest valid one, k:k:k:k, has 7).
MaxKeyLen == 7
\* Most <Contents> elements the remote lists during one search.
MaxListed == 3
\* Most <Contents> elements in one page of the model's remote.
MaxPerPage == 2
\* The remote's last page is one of 1..MaxFinalPage, maxRequests or maxRequests + 1.
MaxFinalPage == 4
\* Most files handed to one upload call.
MaxFiles == 3

\* The latest time the clock reaches while a search is being followed.
MaxClock == 3
\* Most invocations (upload, search) one caller makes in a row.
MaxCalls == 2
\* Most times the same file stands in the files argument of one upload.
MaxCopies == 2

\* const maxRequests = 20 (line 1319)
maxRequests == 20

---------------------------------------------------------------------------
(* Credentials and settings.                                               *)

KeyChars == {"k", ":"}
ValidKey == <<"k", ":", "k", ":", "k", ":", "k">>

\* const [accountId, accessKeyId, accessKeySecret, bucketName,
\*        bucketRegion = 'auto', configCustomDomain = ''] = apiKey.split(':')
accountId(key) == Field(Split(key, ":"), 1)
accessKeyId(key) == Field(Split(key, ":"), 2)
accessKeySecret(key) == Field(Split(key, ":"), 3)
bucketName(key) == Field(Split(key, ":"), 4)
bucketRegion(key) ==
    LET f == Field(Split(key, ":"), 5) IN IF IsSome(f) THEN f[1] ELSE <<"a", "u", "t", "o">>
configCustomDomain(key) ==
    LET f == Field(Split(key, ":"), 6) IN IF IsSome(f) THEN f[1] ELSE <<>>

\* if (!apiKey) reject; if (!accountId || !accessKeyId || !accessKeySecret ||
\* !bucketName) reject.  TRUE when neither check rejects.
CredentialsAcceptedWithoutBucket(key) ==
    /\ key # <<>>
    /\ Truthy(accountId(key))
    /\ Truthy(accessKeyId(key))
    /\ Truthy(accessKeySecret(key))
CredentialsAccepted(key) ==
    /\ key # <<>>
    /\ Truthy(accountId(key))
    /\ Truthy(accessKeyId(key))
    /\ Truthy(accessKeySecret(key))
    /\ Truthy(bucketName(key))

\* const { publicPath = true,
\*         customDomain = settings.customDomain || configCustomDomain || '',
\*         pathPrefix = settings.pathPrefix || '' } = settings;
\* A default applies only when the property is undefined.
NoSettings == [publicPath |-> None, customDomain |-> None, pathPrefix |-> None]
publicPathOf(st) == IF IsSome(st.publicPath) THEN st.publicPath[1] ELSE TRUE
customDomainOf(st, key) ==
    IF IsSome(st.customDomain) THEN st.customDomain[1] ELSE configCustomDomain(key)
pathPrefixOf(st) == IF IsSome(st.pathPrefix) THEN st.pathPrefix[1] ELSE <<>>

\* const searchPrefix = query ? query.toLowerCase() : '';
searchPrefixOf(q) == IF q # <<>> THEN ToLowerCase(q) ELSE <<>>
\* const prefixPath = pathPrefix ? `${pathPrefix.replace(/\/$/, '')}/` : '';
prefixPathOf(st) ==
    IF pathPrefixOf(st) # <<>> THEN StripTrailingSlash(pathPrefixOf(st)) \o <<"/">> ELSE <<>>
\* `https://${bucketName}.${accountId}.r2.cloudflarestorage.com`
DefaultEndpoint(key) ==
    <<"https://">> \o Text(bucketName(key)) \o <<".">> \o Text(accountId(key))
        \o <<".r2.cloudflarestorage.com">>
\* search: const baseUrl = customDomain ? customDomain.replace(/\/$/, '') : default
searchBaseUrl(st, key) ==
    IF customDomainOf(st, key) # <<>> THEN StripTrailingSlash(customDomainOf(st, key))
    ELSE DefaultEndpoint(key)
\* search: const urlBase = customDomain || baseUrl;
urlBaseOf(st, key) ==
    IF customDomainOf(st, key) # <<>> THEN customDomainOf(st, key) ELSE searchBaseUrl(st, key)

---------------------------------------------------------------------------
(* The remote's listing.                                                   *)

\* new Date(text): a valid time value, or Invalid Date (getTime() is NaN).
DateAt(t) == [valid |-> TRUE, time |-> t]
InvalidDate == [valid |-> FALSE, time |-> 0]

\* A <Contents> element: Key (absent: None), Size after parseInt(.. || '0'),
\* LastModified after new Date(.. || '').
Obj(k, sz, lm) == [key |-> k, size |-> sz, lastModified |-> lm]
Objects ==
    { Obj(Some(<<"d", "/">>), 0, DateAt(2)),                      \* directory marker
      Obj(Some(<<"d", "/">>), 1, DateAt(2)),                      \* ends in '/', not empty
      Obj(Some(<<"A", ".", "j", "p", "g">>), 1, DateAt(1)),
      Obj(Some(<<"b", ".", "t", "x", "t">>), 0, DateAt(1)),       \* empty file
      Obj(Some(<<"c", ".", "m", "p", "4">>), 1, InvalidDate) }    \* no LastModified

\* The continuation token the remote hands out with page k.
PageToken(k) == IF k % 2 = 1 THEN <<"t", "1">> ELSE <<"t", "2">>

\* The remote's last page: a small one, the ceiling itself, or beyond it.
FinalPages == (1..MaxFinalPage) \cup {maxRequests, maxRequests + 1}

Min(a, b) == IF a < b THEN a ELSE b

\* The 2xx bodies a remote holding `objects` may send for page k when it has
\* listed n elements:
\* truncated before its last page (the NextContinuationToken element may be
\* missing), not truncated from then on (the IsTruncated element may be missing,
\* a stray token may be present).
RemoteBodies(objects, k, n, final) ==
    { [contents |-> c, isTruncated |-> tr[1], nextToken |-> tr[2]] :
        c \in SeqsUpTo(objects, Min(MaxPerPage, MaxListed - n)),
        tr \in IF k < final
               THEN {<<Some("true"), Some(PageToken(k))>>, <<Some("true"), None>>}
               ELSE {<<Some("false"), None>>, <<None, None>>,
                     <<Some("false"), Some(PageToken(k))>>} }

\* The bucket after a PUT to `path` was accepted at time `now`: the object under
\* that key is the new one (PUT /{key} replaces).
Stored(objects, path, size, now) ==
    {o \in objects : o.key # Some(path)} \cup {Obj(Some(path), size, DateAt(now))}

---------------------------------------------------------------------------
(* The signer, as far as the bucket client depends on it.                  *)

\* Object.keys(queryParams).sort(): the order of the parameter names in use.
ParamOrder == <<"continuation-token", "list-type", "max-keys", "prefix">>

\* canonicalQueryString: the key=value pairs in ascending key order.
CanonicalQuery(params) ==
    LET present == SelectSeq(ParamOrder, LAMBDA name : \E p \in params : p[1] = name)
    IN  [i \in 1..Len(present) |->
            <<present[i], (CHOOSE p \in params : p[1] = present[i])[2]>>]

\* getSignedRequest: the URL is the path-style endpoint, the bucket, the path (or a
\* trailing slash) and the canonical query string; the signature depends on the
\* region, the keys and the date (date = new Date() at the call, line 979).
getSignedRequest(options) ==
    [url |-> [account |-> options.accountId,
              bucket |-> options.bucket,
              path |-> options.path,
              query |-> CanonicalQuery(options.queryParams)],
     signedWith |-> [region |-> options.region,
                     accessKeyId |-> options.accessKeyId,
                     secretAccessKey |-> options.secretAccessKey],
     method |-> options.method,
     headers |-> options.headers,
     amzDate |-> options.date]

\* The value a query parameter has in a signed URL (None when it is absent).
QueryValue(url, name) ==
    LET hits == {i \in 1..Len(url.query) : url.query[i][1] = name}
    IN  IF hits = {} THEN None ELSE Some(url.query[CHOOSE i \in hits : TRUE][2])

---------------------------------------------------------------------------
(* search: the pagination loop of fetchAllObjects.                         *)

\* batchQueryParams of one iteration (lines 1327-1340).
batchQueryParamsWithoutToken(prefixPath, token) ==
    {<<"list-type", <<"2">>>>, <<"max-keys", <<"1000">>>>}
        \cup (IF prefixPath # <<>> THEN {<<"prefix", prefixPath>>} ELSE {})
batchQueryParams(prefixPath, token) ==
    {<<"list-type", <<"2">>>>, <<"max-keys", <<"1000">>>>}
        \cup (IF prefixPath # <<>> THEN {<<"prefix", prefixPath>>} ELSE {})
        \cup (IF Truthy(token) THEN {<<"continuation-token", token[1]>>} ELSE {})

\* if (key && !(key.endsWith('/') && size === 0)) allObjects.push(...)
KeepsEveryKey(o) == Truthy(o.key)
IsCollected(o) == Truthy(o.key) /\ ~(EndsWith(o.key[1], "/") /\ o.size = 0)

\* contents.forEach(...): the raw objects one page adds to allObjects.
CollectedFrom(contents) ==
    LET kept == SelectSeq(contents, IsCollected)
    IN  [i \in 1..Len(kept) |->
            [key |-> kept[i].key[1], size |-> kept[i].size,
             lastModified |-> kept[i].lastModified]]

\* isTruncated ? nextToken : null   (lines 1393-1405)
TokenAfter(body) == IF body.isTruncated = Some("true") THEN body.nextToken ELSE None

\* } while (continuationToken && requestCount < maxRequests);
LoopContinues(token, count) == Truthy(token) /\ count < maxRequests

---------------------------------------------------------------------------
(* search: from raw objects to assets (lines 1418-1466).                   *)

\* const fileName = key.replace(prefixPath, '');
fileNameOf(key, prefixPath) == ReplaceFirst(key, prefixPath, <<>>)

\* if (searchPrefix && !fileName.toLowerCase().includes(searchPrefix)) return;
PassesFilterCaseSensitive(fileName, searchPrefix) ==
    searchPrefix = <<>> \/ Includes(fileName, searchPrefix)
PassesFilter(fileName, searchPrefix) ==
    searchPrefix = <<>> \/ Includes(ToLowerCase(fileName), searchPrefix)

\* const extension = fileName.split('.').pop()?.toLowerCase() || '';
extensionOfKeepingCase(fileName) ==
    LET parts == Split(fileName, ".") IN parts[Len(parts)]
extensionOf(fileName) ==
    LET parts == Split(fileName, ".") IN ToLowerCase(parts[Len(parts)])

ImageExtensions ==
    { <<"j", "p", "g">>, <<"j", "p", "e", "g">>, <<"p", "n", "g">>, <<"g", "i", "f">>,
      <<"w", "e", "b", "p">>, <<"s", "v", "g">> }
VideoExtensions == { <<"m", "p", "4">>, <<"w", "e", "b", "m">>, <<"m", "o", "v">> }
AudioExtensions == { <<"m", "p", "3">>, <<"w", "a", "v">>, <<"o", "g", "g">> }
DocumentExtensions ==
    { <<"p", "d", "f">>, <<"d", "o", "c">>, <<"d", "o", "c", "x">>, <<"t", "x", "t">> }

\* The extension table of lines 1435-1445.
kindOfExtension(ext) ==
    IF ext \in ImageExtensions THEN "image"
    ELSE IF ext \in VideoExtensions THEN "video"
    ELSE IF ext \in AudioExtensions THEN "audio"
    ELSE IF ext \in DocumentExtensions THEN "document"
    ELSE "other"

\* assets.push({ id: key, description: fileName, previewURL, downloadURL, ... })
searchAsset(o, urlBase, prefixPath) ==
    LET fileName == fileNameOf(o.key, prefixPath)
        fileKind == kindOfExtension(extensionOf(fileName))
    IN  [id |-> o.key,
         description |-> fileName,
         previewURL |-> IF fileKind = "image" THEN urlBase \o <<"/">> \o o.key ELSE <<>>,
         downloadURL |-> urlBase \o <<"/">> \o o.key,
         fileName |-> fileName,
         kind |-> fileKind,
         lastModified |-> o.lastModified,
         size |-> o.size]

\* allRawObjects.forEach(...): the assets before the sort, in listing order.
assetsOf(raw, q, st, key) ==
    LET kept == SelectSeq(raw,
                    LAMBDA o : PassesFilter(fileNameOf(o.key, prefixPathOf(st)),
                                            searchPrefixOf(q)))
    IN  [i \in 1..Len(kept) |-> searchAsset(kept[i], urlBaseOf(st, key), prefixPathOf(st))]

\* The comparator of line 1460: b.getTime() - a.getTime().  NaN when either date
\* is invalid; Array.prototype.sort reads a NaN result as +0 (equal).
CompareAscending(a, b) ==
    IF a.lastModified.valid /\ b.lastModified.valid
    THEN a.lastModified.time - b.lastModified.time
    ELSE 0
Compare(a, b) ==
    IF a.lastModified.valid /\ b.lastModified.valid
    THEN b.lastModified.time - a.lastModified.time
    ELSE 0

\* The comparator is a consistent comparison function for these elements (ECMA-262
\* 23.1.3.30): being equal under it is transitive.
ConsistentComparator(as) ==
    \A i, j, k \in 1..Len(as) :
        (Compare(as[i], as[j]) = 0 /\ Compare(as[j], as[k]) = 0)
            => Compare(as[i], as[k]) = 0

\* A stable sort under a consistent comparator: x goes behind every element that
\* does not sort after it.
RECURSIVE StableSort(_)
StableSort(as) ==
    IF as = <<>> THEN <<>>
    ELSE LET n == Len(as)
             x == as[n]
             front == StableSort(SubSeq(as, 1, n - 1))
             ahead == {i \in 1..Len(front) : Compare(front[i], x) <= 0}
             at == IF ahead = {} THEN 0 ELSE CHOOSE i \in ahead : \A j \in ahead : j <= i
         IN  SubSeq(front, 1, at) \o <<x>> \o SubSeq(front, at + 1, Len(front))

\* Every order of the elements.
Reorderings(as) ==
    {[i \in 1..Len(as) |-> as[p[i]]] : p \in Permutations(1..Len(as))}

\* assets.sort(comparator): stable (ES2019) when the comparator is consistent; with
\* an inconsistent comparator the order is implementation-defined.
SortOutcomes(as) ==
    IF ConsistentComparator(as) THEN {StableSort(as)} ELSE Reorderings(as)

---------------------------------------------------------------------------
(* upload: generateUploadURL and the asset record (lines 1141-1193, 1635-1678). *)

\* String.prototype.startsWith
StartsWith(s, pre) == Len(s) >= Len(pre) /\ SubSeq(s, 1, Len(pre)) = pre

\* A File: name, declared content type, size.  A content type is written in the
\* pieces the code looks for ('image/', 'pdf', ...).
File(n, t, sz) == [name |-> n, type |-> t, size |-> sz]
FileSet ==
    { File(<<"A", ".", "j", "p", "g">>, <<"image/", "jpeg">>, 1),
      File(<<"b", ".", "t", "x", "t">>, <<"text/", "plain">>, 0),
      File(<<"r", ".", "p", "d", "f">>, <<"application/", "pdf">>, 2) }

\* const filePath = pathPrefix ? `${pathPrefix.replace(/\/$/, '')}/${fileName}` : fileName;
filePathOf(st, fileName) ==
    IF pathPrefixOf(st) # <<>>
    THEN StripTrailingSlash(pathPrefixOf(st)) \o <<"/">> \o fileName
    ELSE fileName

\* generateUploadURL: const baseUrl = customDomain || default endpoint;
\* const publicURL = publicPath ? `${baseUrl}/${filePath}` : filePath;
publicURLOf(st, key, fileName) ==
    LET baseUrl == IF customDomainOf(st, key) # <<>> THEN customDomainOf(st, key)
                   ELSE DefaultEndpoint(key)
    IN  IF publicPathOf(st) THEN baseUrl \o <<"/">> \o filePathOf(st, fileName)
        ELSE filePathOf(st, fileName)

\* generateUploadURL: the signed PUT for one file.
generateUploadURL(key, fileName, contentType, st, now) ==
    getSignedRequest([method |-> "PUT",
                      date |-> now,
                      region |-> bucketRegion(key),
                      accessKeyId |-> Text(accessKeyId(key)),
                      secretAccessKey |-> Text(accessKeySecret(key)),
                      accountId |-> Text(accountId(key)),
                      bucket |-> Text(bucketName(key)),
                      path |-> filePathOf(st, fileName),
                      headers |-> {<<"Content-Type", contentType>>},
                      queryParams |-> {}])

\* The kind of an uploaded file, from its content type (lines 1656-1664).
kindOfContentType(contentType) ==
    IF StartsWith(contentType, <<"image/">>) THEN "image"
    ELSE IF StartsWith(contentType, <<"video/">>) THEN "video"
    ELSE IF StartsWith(contentType, <<"audio/">>) THEN "audio"
    ELSE IF Includes(contentType, <<"pdf">>) THEN "document"
    ELSE "other"

\* const asset = { id: fileName, ..., lastModified: new Date(), size: file.size };
uploadAssetStampedName(file, st, key, now) ==
    [id |-> file.name \o <<ToString(now)>>,
     description |-> file.name,
     previewURL |-> publicURLOf(st, key, file.name),
     downloadURL |-> publicURLOf(st, key, file.name),
     fileName |-> prefixPathOf(st) \o file.name \o <<ToString(now)>>,
     kind |-> kindOfContentType(file.type),
     lastModified |-> DateAt(now),
     size |-> file.size]
uploadAsset(file, st, key, now) ==
    [id |-> file.name,
     description |-> file.name,
     previewURL |-> publicURLOf(st, key, file.name),
     downloadURL |-> publicURLOf(st, key, file.name),
     fileName |-> prefixPathOf(st) \o file.name,
     kind |-> kindOfContentType(file.type),
     lastModified |-> DateAt(now),
     size |-> file.size]

---------------------------------------------------------------------------
(* State.                                                                  *)

VARIABLES
    op,                 \* the operation invoked: "search" or "upload"
    apiKey,             \* options.apiKey
    query,              \* search's query argument
    settings,           \* options.settings
    files,              \* upload's files argument
    globalRegion,       \* what the free identifier `region` of line 1345 resolves
                        \* to in the host's global scope: None when the host
                        \* defines no such global (the read is a ReferenceError)
    finalPage,          \* the remote: the number of its last (not truncated) page
    pc,                 \* where the invocation stands
    requestCount,       \* fetchAllObjects: let requestCount
    continuationToken,  \* fetchAllObjects: let continuationToken
    allObjects,         \* fetchAllObjects: const allObjects
    fileIdx,            \* upload: position of the for...of loop (1-based)
    uploadedAssets,     \* upload: const uploadedAssets
    clock,              \* the time new Date() reads
    inflight,           \* requests handed to fetch and not yet answered
    fetchCount,         \* calls of fetch made by this invocation
    served,             \* every <Contents> element sent so far, in listing order
    lastBody,           \* the last 2xx list body received (None before the first)
    putLog,             \* the files PUT so far, by position in files
    faults,             \* what went wrong so far: "status", "transport", "body", "token"
    result,             \* None while pending or rejected; Some(array) once resolved
    remoteObjects,      \* the remote: the objects the bucket holds
    history,            \* the caller: the invocations completed before this one
    signCount,          \* calls of getSignedRequest made by this search
    lastSent,           \* the signed list request handed to fetch last (None before
                        \* the first): which signing call made it, when it was
                        \* sent and when the answer before it had arrived
    hotlinking,         \* panel: serviceProps.hotlinking
    onSelectGiven,      \* panel: whether the onSelect prop is given
    selections,         \* panel: the assets selectAsset was called with, in order
    downloads,          \* panel: the fetch(downloadURL) calls and how each ended
    onSelectLog,        \* panel: the resources handed to onSelect, in order
    panelError,         \* panel: let error (None: undefined)
    searchResults,      \* panel: let searchResults (None: null)
    searchesIssued,     \* panel: the queries searchAssets was called with, in order
    pendingCalls,       \* panel: the search and upload promises not yet settled
    signerCalls,        \* direct calls of getSignedRequest: options, date read, outcome
    selectedEntries,    \* entry list: the selectedEntries store
    selectionUpdates    \* entry list: the updateSelection calls made, in order

vars ==
    <<op, apiKey, query, settings, files, globalRegion, finalPage, pc, requestCount,
      continuationToken, allObjects, fileIdx, uploadedAssets, clock, inflight,
      fetchCount, served, lastBody, putLog, faults, result, remoteObjects, history,
      signCount, lastSent, hotlinking, onSelectGiven, selections, downloads, onSelectLog,
      panelError, searchResults, searchesIssued, pendingCalls, signerCalls,
      selectedEntries, selectionUpdates>>

panelVars == <<hotlinking, onSelectGiven, selections, downloads, onSelectLog, panelError>>
panelSearchVars == <<searchResults, searchesIssued, pendingCalls>>
otherCallers == <<signerCalls, selectedEntries, selectionUpdates>>
callerVars == <<history, panelVars, panelSearchVars, otherCallers>>
inputs == <<op, apiKey, query, settings, files, globalRegion, finalPage>>
searchLocals == <<requestCount, continuationToken, allObjects>>
signing == <<signCount, lastSent>>
uploadLocals == <<fileIdx, uploadedAssets, clock>>

Queries == {<<>>, <<"A">>}
SettingsSet == {NoSettings, [NoSettings EXCEPT !.pathPrefix = Some(<<"d">>)]}
GlobalRegions == {None, Some(<<"g">>)}

\* A fresh invocation: nothing requested, nothing collected.
FreshInvocation ==
    /\ pc = "called"
    /\ requestCount = 0
    /\ continuationToken = None
    /\ allObjects = <<>>
    /\ fileIdx = 0
    /\ uploadedAssets = <<>>
    /\ clock = 0
    /\ inflight = {}
    /\ fetchCount = 0
    /\ served = <<>>
    /\ lastBody = None
    /\ putLog = <<>>
    /\ faults = {}
    /\ result = None
    /\ signCount = 0
    /\ lastSent = <<>>
    /\ selections = <<>>
    /\ downloads = <<>>
    /\ onSelectLog = <<>>
    /\ panelError = None
    /\ searchResults = None
    /\ searchesIssued = <<>>
    /\ pendingCalls = {}
    /\ signerCalls = <<>>
    /\ selectedEntries = <<>>
    /\ selectionUpdates = <<>>

\* hotlinking: false (line 1696)
r2Hotlinking == FALSE

\* The callers of search and upload outside the panel's selection flow.
NoPanel ==
    /\ hotlinking = r2Hotlinking
    /\ onSelectGiven = TRUE

InitWith(ops, keys, queries, settingsSet, fileSeqs, regions, finals) ==
    /\ op \in ops
    /\ apiKey \in keys
    /\ query \in queries
    /\ settings \in settingsSet
    /\ files \in fileSeqs
    /\ globalRegion \in regions
    /\ finalPage \in finals
    /\ remoteObjects = Objects
    /\ history = <<>>
    /\ NoPanel
    /\ FreshInvocation

---------------------------------------------------------------------------
(* search (lines 1266-1477).                                               *)

\* The inner catch of search (lines 1467-1472): console.error, then return [].
ListCatchRethrows == [pc |-> "rejected", result |-> None]
ListCatch == [pc |-> "resolved", result |-> Some(<<>>)]

\* Lines 1266-1319: the credential checks, the settings, and the entry into
\* fetchAllObjects.  Both checks reject before anything is requested.
search ==
    /\ pc = "called"
    /\ op = "search"
    /\ IF CredentialsAccepted(apiKey)
       THEN /\ pc' = "loop"
            /\ requestCount' = 0
            /\ continuationToken' = None
            /\ allObjects' = <<>>
       ELSE /\ pc' = "rejected"
            /\ UNCHANGED searchLocals
    /\ UNCHANGED <<inputs, callerVars, signing, remoteObjects, uploadLocals, inflight,
                   fetchCount, served, lastBody, putLog, faults, result>>

\* The signed request an iteration hands to fetch (lines 1343-1363): the one
\* getSignedRequest just returned to it.
RequestToFetchSignedBefore(fresh, last) ==
    IF last = None THEN fresh
    ELSE [signing |-> last[1].signing,
          request |-> [fresh.request EXCEPT !.amzDate = last[1].amzDate]]
RequestToFetch(fresh, last) == fresh

\* Lines 1321-1363: one iteration up to the fetch.  The options object of
\* getSignedRequest reads the identifier `region`, which search never declares
\* (its own constant is bucketRegion): without a binding the read throws a
\* ReferenceError, which the catch of line 1467 turns into `return []`.
requestBatch ==
    /\ pc = "loop"
    /\ requestCount' = requestCount + 1
    /\ IF globalRegion = None
       THEN /\ pc' = ListCatch.pc
            /\ result' = ListCatch.result
            /\ UNCHANGED <<inflight, fetchCount, signing>>
       ELSE LET fresh == [signing |-> signCount + 1,
                          request |-> getSignedRequest(
                              [method |-> "GET",
                               date |-> clock,
                               region |-> globalRegion[1],
                               accessKeyId |-> Text(accessKeyId(apiKey)),
                               secretAccessKey |-> Text(accessKeySecret(apiKey)),
                               accountId |-> Text(accountId(apiKey)),
                               bucket |-> Text(bucketName(apiKey)),
                               path |-> <<>>,
                               headers |-> {},
                               queryParams |->
                                   batchQueryParams(prefixPathOf(settings),
                                                    continuationToken)])]
                sent == RequestToFetch(fresh, lastSent)
            IN  /\ signCount' = signCount + 1
                /\ inflight' = inflight \cup
                     {[seq |-> requestCount + 1, request |-> sent.request]}
                /\ lastSent' = Some(
                     [signing |-> sent.signing, amzDate |-> sent.request.amzDate,
                      sentAt |-> clock,
                      answeredAt |-> IF lastBody = None THEN 0 ELSE lastBody[1].at])
                /\ fetchCount' = fetchCount + 1
                /\ pc' = "awaiting"
                /\ UNCHANGED result
    /\ UNCHANGED <<inputs, callerVars, remoteObjects, continuationToken, allObjects,
                   uploadLocals, served, lastBody, putLog, faults>>

\* Lines 1365-1406 on a 2xx answer: parse the page, collect its objects, take the
\* continuation token, and decide whether the loop goes on.
responseOk ==
    /\ pc = "awaiting"
    /\ op = "search"
    /\ \E r \in inflight, body \in RemoteBodies(remoteObjects, requestCount, Len(served),
                                                   finalPage) :
        /\ inflight' = inflight \ {r}
        /\ served' = served \o body.contents
        /\ lastBody' = Some([page |-> r.seq, isTruncated |-> body.isTruncated,
                             nextToken |-> body.nextToken, at |-> clock])
        /\ faults' = IF body.isTruncated = Some("true") /\ ~Truthy(body.nextToken)
                     THEN faults \cup {"token"} ELSE faults
        /\ allObjects' = allObjects \o CollectedFrom(body.contents)
        /\ continuationToken' = TokenAfter(body)
        /\ pc' = IF LoopContinues(TokenAfter(body), requestCount) THEN "loop" ELSE "process"
    /\ UNCHANGED <<inputs, callerVars, signing, remoteObjects, requestCount, uploadLocals,
                   fetchCount, putLog, result>>

\* Lines 1365-1368: a non-2xx answer breaks out of the loop; what was collected
\* so far goes on to be processed.
responseNotOk ==
    /\ pc = "awaiting"
    /\ op = "search"
    /\ \E r \in inflight : inflight' = inflight \ {r}
    /\ faults' = faults \cup {"status"}
    /\ pc' = "process"
    /\ UNCHANGED <<inputs, callerVars, signing, remoteObjects, searchLocals, uploadLocals,
                   fetchCount, served, lastBody, putLog, result>>

\* fetch rejects (transport), or response.text() rejects (body): the exception
\* leaves fetchAllObjects and the catch of line 1467 returns [].
listFails ==
    /\ pc = "awaiting"
    /\ op = "search"
    /\ \E r \in inflight : inflight' = inflight \ {r}
    /\ \E how \in {"transport", "body"} : faults' = faults \cup {how}
    /\ pc' = ListCatch.pc
    /\ result' = ListCatch.result
    /\ UNCHANGED <<inputs, callerVars, signing, remoteObjects, searchLocals, uploadLocals,
                   fetchCount, served, lastBody, putLog>>

\* Lines 1413-1466: build the assets, sort them, return them.
processAssets ==
    /\ pc = "process"
    /\ \E sorted \in SortOutcomes(assetsOf(allObjects, query, settings, apiKey)) :
        result' = Some(sorted)
    /\ pc' = "resolved"
    /\ UNCHANGED <<inputs, callerVars, signing, remoteObjects, searchLocals, uploadLocals,
                   inflight, fetchCount, served, lastBody, putLog, faults>>

SearchNext ==
    \/ search
    \/ requestBatch
    \/ responseOk
    \/ responseNotOk
    \/ listFails
    \/ processAssets

\* A valid credential string, the empty one, and one without the bucket field.
SearchKeys == {ValidKey, <<>>, <<"k", ":", "k", ":", "k">>}

SearchInit ==
    InitWith({"search"}, SearchKeys, Queries, SettingsSet, {<<>>}, GlobalRegions, FinalPages)

SearchSpec == SearchInit /\ [][SearchNext]_vars

---------------------------------------------------------------------------
(* upload (lines 1605-1685).                                               *)

\* Lines 1605-1634: the credential checks and the entry into the for...of loop.
upload ==
    /\ pc = "called"
    /\ op = "upload"
    /\ IF ~CredentialsAccepted(apiKey)
       THEN /\ pc' = "rejected"
            /\ UNCHANGED <<fileIdx, uploadedAssets, result>>
       ELSE /\ uploadedAssets' = <<>>
            /\ IF files = <<>>
               THEN /\ pc' = "resolved"
                    /\ result' = Some(<<>>)
                    /\ UNCHANGED fileIdx
               ELSE /\ pc' = "nextFile"
                    /\ fileIdx' = 1
                    /\ UNCHANGED result
    /\ UNCHANGED <<inputs, callerVars, signing, remoteObjects, searchLocals, clock,
                   inflight, fetchCount, served, lastBody, putLog, faults>>

\* Lines 1635-1648 with generateUploadURL and uploadFile up to its fetch: the
\* signed PUT of the current file is handed to fetch.  (Web Crypto is taken to be
\* there: getSignedRequest does not throw.)
putFile ==
    /\ pc = "nextFile"
    /\ inflight' = inflight \cup
         {[seq |-> fileIdx,
           request |-> generateUploadURL(apiKey, files[fileIdx].name,
                                         files[fileIdx].type, settings, clock)]}
    /\ fetchCount' = fetchCount + 1
    /\ putLog' = Append(putLog, fileIdx)
    /\ pc' = "putting"
    /\ UNCHANGED <<inputs, callerVars, signing, remoteObjects, searchLocals, uploadLocals,
                   served, lastBody, faults, result>>

\* The for...of loop after a file's record is pushed: the next file, or return.
AfterPushReturns(idx, n) == "resolved"
AfterPush(idx, n) == IF idx < n THEN "nextFile" ELSE "resolved"

\* uploadFile returns on a 2xx answer; lines 1650-1678 push the file's record and
\* the loop moves on; after the last file upload returns uploadedAssets.
putOk ==
    /\ pc = "putting"
    /\ op = "upload"
    /\ \E r \in inflight, now \in {clock, clock + 1} :
        /\ inflight' = inflight \ {r}
        /\ remoteObjects' = Stored(remoteObjects, r.request.url.path, files[fileIdx].size, now)
        /\ clock' = now
        /\ uploadedAssets' =
             Append(uploadedAssets, uploadAsset(files[fileIdx], settings, apiKey, now))
    /\ pc' = AfterPush(fileIdx, Len(files))
    /\ IF AfterPush(fileIdx, Len(files)) = "nextFile"
       THEN /\ fileIdx' = fileIdx + 1
            /\ UNCHANGED result
       ELSE /\ result' = Some(uploadedAssets')
            /\ UNCHANGED fileIdx
    /\ UNCHANGED <<inputs, callerVars, signing, searchLocals, fetchCount, served, lastBody,
                   putLog, faults>>

\* upload's catch (lines 1681-1684): return Promise.reject(error); the records
\* pushed so far are dropped with the local array, and no request is made for
\* the objects already written (deletes: the keys it asks the remote to remove).
UploadCatchReturnsPartial(assets) ==
    [pc |-> "resolved", result |-> Some(assets), deletes |-> {}]
UploadCatchDeletingUploaded(assets) ==
    [pc |-> "rejected", result |-> None,
     deletes |-> {Some(assets[i].fileName) : i \in 1..Len(assets)}]
UploadCatch(assets) == [pc |-> "rejected", result |-> None, deletes |-> {}]

\* uploadFile throws on a non-2xx answer (line 1234) or when fetch rejects; the
\* exception leaves the for...of loop and upload's catch takes it.
putFails ==
    /\ pc = "putting"
    /\ op = "upload"
    /\ \E r \in inflight : inflight' = inflight \ {r}
    /\ \E how \in {"status", "transport"} : faults' = faults \cup {how}
    /\ pc' = UploadCatch(uploadedAssets).pc
    /\ result' = UploadCatch(uploadedAssets).result
    /\ remoteObjects' =
         {o \in remoteObjects : o.key \notin UploadCatch(uploadedAssets).deletes}
    /\ UNCHANGED <<inputs, callerVars, signing, searchLocals, uploadLocals, fetchCount,
                   served, lastBody, putLog>>

UploadNext ==
    \/ upload
    \/ putFile
    \/ putOk
    \/ putFails

UploadInit ==
    InitWith({"upload"}, {ValidKey}, {<<>>}, SettingsSet, SeqsUpTo(FileSet, MaxFiles),
             {None}, {1})

UploadSpec == UploadInit /\ [][UploadNext]_vars

---------------------------------------------------------------------------
(* Both operations, over every credential string up to MaxKeyLen.           *)

KeyStrings == SeqsUpTo(KeyChars, MaxKeyLen)

CredentialInit ==
    InitWith({"search", "upload"}, KeyStrings, {<<>>}, {NoSettings},
             SeqsUpTo(FileSet, 1), {Some(<<"g">>)}, {1, 2})

CredentialNext ==
    \/ SearchNext
    \/ UploadNext

CredentialSpec == CredentialInit /\ [][CredentialNext]_vars

---------------------------------------------------------------------------
(* What the claims speak of.                                               *)

\* A credential string whose colon-split leaves one of the first four fields
\* missing or empty.
MissingField(key) ==
    LET parts == Split(key, ":")
    IN  \E i \in 1..4 : i > Len(parts) \/ parts[i] = <<>>

\* A directory placeholder: a key that ends in '/' with size 0.
IsDirectoryMarker(key, size) == EndsWith(key, "/") /\ size = 0

\* The listed objects a search has to return, in listing order: the elements sent
\* by the remote that are no directory placeholder and pass the query filter.
ExpectedListing ==
    SelectSeq(served,
        LAMBDA o : /\ IsSome(o.key)
                   /\ ~IsDirectoryMarker(o.key[1], o.size)
                   /\ PassesFilter(fileNameOf(o.key[1], prefixPathOf(settings)),
                                   searchPrefixOf(query)))

\* The object an asset stands for.
ObjectOf(a) == [key |-> Some(a.id), size |-> a.size, lastModified |-> a.lastModified]

\* Two sequences hold the same elements the same number of times.
SameBag(a, b) ==
    /\ Len(a) = Len(b)
    /\ \A i \in 1..Len(a) :
        Cardinality({j \in 1..Len(a) : a[j] = a[i]})
            = Cardinality({j \in 1..Len(b) : b[j] = a[i]})

\* The array a resolved search returned, as the objects it stands for.
ReturnedObjects == [i \in 1..Len(result[1]) |-> ObjectOf(result[1][i])]

SearchResolved == op = "search" /\ pc = "resolved"
UploadResolved == op = "upload" /\ pc = "resolved"

---------------------------------------------------------------------------
(* Claims.                                                                 *)

\* C1: for an empty apiKey and for every credential string whose colon-split
\* leaves one of the first four fields missing or empty, search and upload both
\* reject and the invocation never calls fetch.
C1_MalformedCredentialsRejectUnfetched ==
    (apiKey = <<>> \/ MissingField(apiKey))
        => /\ pc \in {"called", "rejected"}
           /\ fetchCount = 0
           /\ inflight = {}
           /\ result = None

\* C1 witness: a credential string without the bucket field has been rejected.
C1_Witness ==
    /\ apiKey = <<"k", ":", "k", ":", "k">>
    /\ op = "upload"
    /\ pc = "rejected"

\* C2 (as claimed): with valid credentials and a remote that answers 2xx, is
\* truncated with a token on pages 1..n-1 and not truncated on page n <= 20,
\* search issues exactly n list requests and returns every listed object that is
\* no directory placeholder and passes the filter.
C2_ExactlyNRequestsAllPages ==
    (SearchResolved /\ faults = {} /\ finalPage <= maxRequests)
        => /\ fetchCount = finalPage
           /\ SameBag(ReturnedObjects, ExpectedListing)

\* C2, where the host does define a global `region`: the pagination loop then
\* behaves as claimed.
C2_WhenRegionResolves ==
    globalRegion # None => C2_ExactlyNRequestsAllPages

\* C3 (as claimed): against a remote that is truncated with a token on every
\* page, search stops after exactly 20 list requests and resolves with what
\* those 20 pages listed; no search issues more than 20 list requests.
C3_CeilingOfTwentyRequests ==
    /\ fetchCount <= maxRequests
    /\ (SearchResolved /\ faults = {} /\ finalPage > maxRequests)
          => /\ fetchCount = maxRequests
             /\ SameBag(ReturnedObjects, ExpectedListing)

\* C3, where the host does define a global `region`.
C3_WhenRegionResolves ==
    globalRegion # None => C3_CeilingOfTwentyRequests

\* C4: within one search the first list request carries no continuation-token,
\* request k+1 carries exactly the NextContinuationToken of response k and is
\* issued only after response k was received; at most one request is in flight.
C4_TokenChainSequential ==
    op = "search" =>
        /\ Cardinality(inflight) <= 1
        /\ \A r \in inflight :
            /\ r.seq = fetchCount
            /\ r.seq = 1 =>
                 /\ lastBody = None
                 /\ QueryValue(r.request.url, "continuation-token") = None
            /\ r.seq > 1 =>
                 /\ lastBody # None
                 /\ lastBody[1].page = r.seq - 1
                 /\ QueryValue(r.request.url, "continuation-token") = lastBody[1].nextToken

\* C4 witness: the third list request is in flight with the token of page 2.
C4_Witness ==
    /\ op = "search"
    /\ \E r \in inflight :
        /\ r.seq = 3
        /\ QueryValue(r.request.url, "continuation-token") = Some(PageToken(2))


\* C5: when the PUT of the k-th file is answered non-2xx or fails in transport,
\* upload rejects, no PUT is issued for files k+1..n, and the caller receives no
\* record at all, not even those of files 1..k-1.
C5_UploadAllOrNothing ==
    (op = "upload" /\ faults # {})
        => /\ pc = "rejected"
           /\ result = None
           /\ inflight = {}
           /\ putLog = [i \in 1..fileIdx |-> i]
           /\ fetchCount = fileIdx

\* C5 witness: the PUT of the second of three files failed after the first had
\* been uploaded and recorded.
C5_Witness ==
    /\ op = "upload"
    /\ Len(files) = 3
    /\ fileIdx = 2
    /\ Len(uploadedAssets) = 1
    /\ faults # {}
    /\ pc = "rejected"

\* C6: upload issues its PUTs one at a time in the order of the files argument,
\* the PUT of file i+1 only after the PUT of file i completed successfully, and
\* when every PUT succeeds the returned array holds exactly one record per file,
\* in the order of the files argument.
C6_UploadSequentialInOrder ==
    op = "upload" =>
        /\ putLog = [i \in 1..Len(putLog) |-> i]
        /\ Cardinality(inflight) <= 1
        /\ \A r \in inflight : r.seq = Len(putLog) /\ Len(uploadedAssets) = r.seq - 1
        /\ Len(putLog) > 0 => Len(uploadedAssets) >= Len(putLog) - 1
        /\ \A i \in 1..Len(uploadedAssets) :
              i <= Len(files) /\ uploadedAssets[i].id = files[i].name
        /\ pc = "resolved" =>
              /\ result # None
              /\ Len(result[1]) = Len(files)
              /\ \A i \in 1..Len(files) :
                    /\ result[1][i].id = files[i].name
                    /\ result[1][i].size = files[i].size
                    /\ result[1][i].kind = kindOfContentType(files[i].type)

\* C6 witness: an upload of three files, not all the same, has resolved.
C6_Witness ==
    /\ UploadResolved
    /\ Len(files) = 3
    /\ files[1] # files[2]
    /\ files[2] # files[3]
    /\ Len(result[1]) = 3

\* C7: once the credential string has passed validation search never rejects:
\* after a transport exception, a non-2xx status or a malformed body it resolves
\* with an array; only an empty or malformed credential string makes it reject.
C7_SearchRejectsOnlyOnCredentials ==
    op = "search" =>
        /\ pc = "rejected" => (apiKey = <<>> \/ MissingField(apiKey))
        /\ pc = "resolved" => result # None
        /\ faults # {} => pc \in {"loop", "awaiting", "process", "resolved"}
        /\ (faults \cap {"transport", "body", "status"}) # {} => pc \in {"process", "resolved"}

\* C7 witness: a search whose second list request failed in transport has
\* resolved with an array.
C7_Witness ==
    /\ SearchResolved
    /\ "transport" \in faults
    /\ fetchCount = 2
    /\ result = Some(<<>>)

\* C8 (as claimed): when a list request of a search, the first or a later one,
\* is answered non-2xx, search resolves to the empty array.
C8_NonOkStatusYieldsEmpty ==
    (SearchResolved /\ "status" \in faults) => result = Some(<<>>)

\* C8, for the first page only: a non-2xx answer to the first list request
\* makes search resolve to the empty array.
C8_FirstPageNonOkYieldsEmpty ==
    (SearchResolved /\ "status" \in faults /\ fetchCount = 1) => result = Some(<<>>)

\* No pair of returned assets stands in increasing lastModified order.
NewestFirst(assets) ==
    \A i, j \in 1..Len(assets) :
        (i < j /\ assets[i].lastModified.valid /\ assets[j].lastModified.valid)
            => assets[i].lastModified.time >= assets[j].lastModified.time

\* Assets with the same valid lastModified stand in the order of the listing.
TiesInListingOrder(assets) ==
    \A i \in 1..Len(assets) :
        assets[i].lastModified.valid =>
            LET t == assets[i].lastModified
                ids(seq) == [n \in 1..Len(seq) |-> Text(seq[n].key)]
                sameTime(o) == o.lastModified = t
                objs == [n \in 1..Len(assets) |-> ObjectOf(assets[n])]
            IN  ids(SelectSeq(objs, sameTime)) = ids(SelectSeq(ExpectedListing, sameTime))

C10_NoDirectoryMarkerReturned ==
    SearchResolved =>
        \A i \in 1..Len(result[1]) :
            ~IsDirectoryMarker(result[1][i].id, result[1][i].size)

\* C10 witness: the remote listed a directory placeholder and a non-empty object
\* whose key ends in '/'; the search returned the latter only.
C10_Witness ==
    /\ SearchResolved
    /\ \E n \in 1..Len(served) : IsDirectoryMarker(Text(served[n].key), served[n].size)
    /\ Len(result[1]) = 1
    /\ result[1][1].id = <<"d", "/">>
    /\ result[1][1].size = 1

---------------------------------------------------------------------------
(* search over a bucket of one object, for every file name of KindNames.    *)

\* a.<extension>
Named(ext) == <<"a", ".">> \o ext

\* The extensions the table of lines 1437-1443 names, in the table's order.
TableExtensions ==
    << <<"j", "p", "g">>, <<"j", "p", "e", "g">>, <<"p", "n", "g">>, <<"g", "i", "f">>,
       <<"w", "e", "b", "p">>, <<"s", "v", "g">>,
       <<"m", "p", "4">>, <<"w", "e", "b", "m">>, <<"m", "o", "v">>,
       <<"m", "p", "3">>, <<"w", "a", "v">>, <<"o", "g", "g">>,
       <<"p", "d", "f">>, <<"d", "o", "c">>, <<"d", "o", "c", "x">>, <<"t", "x", "t">> >>

\* Object keys: one per extension of the table, and names with an unknown
\* extension, upper-case letters, several dots, a leading or trailing dot, no dot.
KindNames ==
    {Named(TableExtensions[i]) : i \in 1..Len(TableExtensions)}
        \cup { Named(<<"x", "y", "z">>), Named(<<"J", "P", "G">>), Named(<<"M", "p", "4">>),
               Named(<<"P", "d", "F">>), Named(<<"b", ".", "p", "n", "g">>),
               Named(<<"p", "n", "g", ".", "x", "y", "z">>), Named(<<"j", "p", "g", "/", "b">>),
               Named(<<>>), <<".", "s", "v", "g">>, <<"j", "p", "g">>, <<"a">> }

KindInit ==
    /\ op = "search"
    /\ apiKey = ValidKey
    /\ query = <<>>
    /\ settings = NoSettings
    /\ files = <<>>
    /\ globalRegion \in GlobalRegions
    /\ finalPage = 1
    /\ remoteObjects \in {{Obj(Some(n), 1, DateAt(1))} : n \in KindNames}
    /\ history = <<>>
    /\ NoPanel
    /\ FreshInvocation

KindSpec == KindInit /\ [][SearchNext]_vars

\* The position of the last '.' of a name (0: the name has none).
LastDot(name) ==
    LET dots == {i \in 1..Len(name) : name[i] = "."}
    IN  IF dots = {} THEN 0 ELSE CHOOSE i \in dots : \A j \in dots : j <= i

TextAfterLastDot(name) == SubSeq(name, LastDot(name) + 1, Len(name))

\* The documented classification, extension by extension.
DocumentedKind(ext) ==
    LET at == {i \in 1..Len(TableExtensions) : TableExtensions[i] = ext}
        i == CHOOSE n \in at : TRUE
    IN  IF at = {} THEN "other"
        ELSE IF i <= 6 THEN "image"
        ELSE IF i <= 9 THEN "video"
        ELSE IF i <= 12 THEN "audio"
        ELSE "document"

AssetKinds == {"image", "video", "audio", "document", "other"}

\* C11: search assigns kind from the lower-cased text after the last '.' of the
\* file name: the extensions of the table give image, video, audio and document
\* as documented, every other extension gives other; the kind of every returned
\* asset is one of the five values.
C11_KindFromExtension ==
    SearchResolved =>
        \A i \in 1..Len(result[1]) :
            LET a == result[1][i] IN
            /\ a.kind \in AssetKinds
            /\ LastDot(a.fileName) > 0 =>
                 a.kind = DocumentedKind(ToLowerCase(TextAfterLastDot(a.fileName)))

\* C11 witness: a search has returned the object a.Mp4 as a video.
C11_Witness ==
    /\ SearchResolved
    /\ Len(result[1]) > 0
    /\ result[1][1].fileName = Named(<<"M", "p", "4">>)
    /\ result[1][1].kind = "video"

---------------------------------------------------------------------------
(* A caller that invokes upload and search in a row on one bucket (the      *)
(* panel uploads, then searches again).                                     *)

\* The caller takes the outcome of the invocation and starts another one with
\* the same credentials and settings; the bucket keeps what was PUT.
nextCall ==
    /\ pc \in {"resolved", "rejected"}
    /\ Len(history) < MaxCalls - 1
    /\ history' = Append(history, [op |-> op, pc |-> pc, result |-> result])
    /\ op' \in {"search", "upload"}
    /\ pc' = "called"
    /\ requestCount' = 0
    /\ continuationToken' = None
    /\ allObjects' = <<>>
    /\ fileIdx' = 0
    /\ uploadedAssets' = <<>>
    /\ inflight' = {}
    /\ fetchCount' = 0
    /\ served' = <<>>
    /\ lastBody' = None
    /\ putLog' = <<>>
    /\ faults' = {}
    /\ result' = None
    /\ signCount' = 0
    /\ lastSent' = <<>>
    /\ UNCHANGED <<apiKey, query, settings, files, globalRegion, finalPage, clock,
                   remoteObjects, panelVars, panelSearchVars, otherCallers>>

SessionNext ==
    \/ UploadNext
    \/ SearchNext
    \/ nextCall

\* The common extensions with their usual content types.  A content type is
\* written in the pieces the code looks for.
TypedFile(ext, major, minor) == File(Named(ext), <<major, minor>>, 1)
TypedFiles ==
    { TypedFile(<<"j", "p", "g">>, "image/", "jpeg"),
      TypedFile(<<"p", "n", "g">>, "image/", "png"),
      TypedFile(<<"s", "v", "g">>, "image/", "svg+xml"),
      TypedFile(<<"m", "p", "4">>, "video/", "mp4"),
      TypedFile(<<"m", "p", "3">>, "audio/", "mpeg"),
      TypedFile(<<"p", "d", "f">>, "application/", "pdf"),
      TypedFile(<<"d", "o", "c">>, "application/", "msword"),
      TypedFile(<<"d", "o", "c", "x">>, "application/",
                "vnd.openxmlformats-officedocument.wordprocessingml.document"),
      TypedFile(<<"t", "x", "t">>, "text/", "plain") }

\* The same file n times.
Copies(f, n) == [i \in 1..n |-> f]

\* An upload of one of the common files into an empty bucket, then another
\* invocation.
TypedInit ==
    /\ op = "upload"
    /\ apiKey = ValidKey
    /\ query = <<>>
    /\ settings = NoSettings
    /\ files \in {Copies(f, n) : f \in TypedFiles, n \in 1..MaxCopies}
    /\ globalRegion \in GlobalRegions
    /\ finalPage = 1
    /\ remoteObjects = {}
    /\ history = <<>>
    /\ NoPanel
    /\ FreshInvocation

TypedSpec == TypedInit /\ [][SessionNext]_vars

\* The records the earlier uploads of this caller returned.
UploadedRecords ==
    UNION { {h.result[1][i] : i \in 1..Len(h.result[1])} :
            h \in {history[n] : n \in {m \in 1..Len(history) :
                                        /\ history[m].op = "upload"
                                        /\ history[m].pc = "resolved"}} }

\* A search of this caller has resolved after an earlier upload.
SearchAfterUpload == SearchResolved /\ UploadedRecords # {}

\* The kind of every asset the search returned for an object equals the kind
\* of the record an earlier upload returned for that object (the record's
\* fileName is the key the file was PUT under), for the files of `names`.
KindsAgreeOn(names) ==
    \A u \in UploadedRecords : \A i \in 1..Len(result[1]) :
        (u.id \in names /\ result[1][i].id = u.fileName) => result[1][i].kind = u.kind

\* C12 (as claimed): for jpg, png, svg, mp4, mp3, pdf, doc, docx and txt files
\* with their usual content types, the kind upload derives from the content
\* type equals the kind search derives from the extension.
C12_KindsAgreeForCommonFiles ==
    SearchAfterUpload => KindsAgreeOn({f.name : f \in TypedFiles})

\* The files for which the two classifications agree: the media types and pdf.
AgreeingNames ==
    {Named(e) : e \in { <<"j", "p", "g">>, <<"p", "n", "g">>, <<"s", "v", "g">>,
                        <<"m", "p", "4">>, <<"m", "p", "3">>, <<"p", "d", "f">> }}

\* C12, for jpg, png, svg, mp4, mp3 and pdf files only: with their usual content
\* types the two kinds are equal.
C12_KindsAgreeForMediaAndPdf ==
    SearchAfterUpload => KindsAgreeOn(AgreeingNames)

\* C12, the rest: a doc, docx or txt file is other for upload and document for
\* search.
C12_OfficeAndTextDiffer ==
    SearchAfterUpload =>
        \A u \in UploadedRecords : \A i \in 1..Len(result[1]) :
            (u.id \notin AgreeingNames /\ result[1][i].id = u.fileName)
                => u.kind = "other" /\ result[1][i].kind = "document"

---------------------------------------------------------------------------
(* The same caller, over the settings and the two forms of credential string. *)

\* accountId:accessKeyId:accessKeySecret:bucketName:bucketRegion:customDomain
KeyWithDomain == ValidKey \o <<":", "r", ":", "e">>
SessionKeys == {ValidKey, KeyWithDomain}

\* publicPath absent or false; customDomain absent, empty or given (with a
\* trailing slash); pathPrefix absent or given (with a trailing slash).
SessionSettings ==
    { [publicPath |-> pp, customDomain |-> cd, pathPrefix |-> px] :
        pp \in {None, Some(FALSE)},
        cd \in {None, Some(<<>>), Some(<<"s", "/">>)},
        px \in {None, Some(<<"d", "/">>)} }

SessionFiles ==
    { File(<<"A", ".", "j", "p", "g">>, <<"image/", "jpeg">>, 1),
      File(<<"b", ".", "t", "x", "t">>, <<"text/", "plain">>, 0) }

SessionInit ==
    /\ op = "upload"
    /\ apiKey \in SessionKeys
    /\ query = <<>>
    /\ settings \in SessionSettings
    /\ files \in {Copies(f, n) : f \in SessionFiles, n \in 1..MaxCopies}
    /\ globalRegion \in GlobalRegions
    /\ finalPage = 1
    /\ remoteObjects = {}
    /\ history = <<>>
    /\ NoPanel
    /\ FreshInvocation

SessionSpec == SessionInit /\ [][SessionNext]_vars

\* The downloadURL of every asset the search returned for an object equals the
\* downloadURL of the record an earlier upload returned for that object.
SameDownloadURL ==
    \A u \in UploadedRecords : \A i \in 1..Len(result[1]) :
        result[1][i].id = u.fileName => result[1][i].downloadURL = u.downloadURL

\* C13 (as claimed): for the same credentials, settings (any publicPath,
\* customDomain, pathPrefix) and object key, the downloadURL of the record upload
\* returned equals the downloadURL search returns for that object.
C13_UploadAndSearchSameURL ==
    SearchAfterUpload => SameDownloadURL

\* C13, for settings whose publicPath is absent or true.
C13_SameURLWhenPublicPath ==
    (SearchAfterUpload /\ publicPathOf(settings)) => SameDownloadURL

\* The custom domain embedded in a credential string: its sixth field ('' when
\* it has none).
EmbeddedDomain(key) ==
    LET parts == Split(key, ":") IN IF Len(parts) >= 6 THEN parts[6] ELSE <<>>

\* The base URL by precedence: the setting, else the embedded domain, else the
\* bucket's default endpoint.
BaseByPrecedence(st, key) ==
    IF Truthy(st.customDomain) THEN st.customDomain[1]
    ELSE IF EmbeddedDomain(key) # <<>> THEN EmbeddedDomain(key)
    ELSE <<"https://">> \o Split(key, ":")[4] \o <<".">> \o Split(key, ":")[1]
            \o <<".r2.cloudflarestorage.com">>

\* Every URL of the invocation's result is the base by precedence, '/', and the
\* object key (upload builds a URL only when publicPath is not false).
ResultURLsUse(base) ==
    \A i \in 1..Len(result[1]) :
        LET a == result[1][i] IN
        /\ op = "search" => a.downloadURL = base \o <<"/">> \o a.id
        /\ (op = "upload" /\ publicPathOf(settings))
              => a.downloadURL = base \o <<"/">> \o a.fileName

\* C14 (as claimed): the base URL of the asset URLs of search and upload is
\* settings.customDomain when given, otherwise the custom domain embedded in the
\* credential string when it has one, otherwise the default endpoint.
C14_BaseURLByPrecedence ==
    pc = "resolved" => ResultURLsUse(BaseByPrecedence(settings, apiKey))

\* C14, where settings.customDomain is absent or not empty.
C14_PrecedenceUnlessEmptySetting ==
    (pc = "resolved" /\ settings.customDomain # Some(<<>>))
        => ResultURLsUse(BaseByPrecedence(settings, apiKey))

\* The region by the credential string: its fifth field, us-east-1 when the
\* field is omitted or is 'auto'.
RegionOfCredentials(key) ==
    LET parts == Split(key, ":")
    IN  IF Len(parts) >= 5 /\ parts[5] # <<"a", "u", "t", "o">> THEN parts[5]
        ELSE <<"us-east-1">>

\* C15 (as claimed): every list request issued by search is signed with the
\* region of the credential string: its fifth field when present, us-east-1
\* when the field is omitted or is 'auto'.
C15_ListSignedWithCredentialRegion ==
    op = "search" =>
        \A r \in inflight : r.request.signedWith.region = RegionOfCredentials(apiKey)

\* C15, what holds instead: a list request is issued only where the host binds
\* the identifier `region`, and is signed with that binding.
C15_ListSignedWithHostBinding ==
    op = "search" =>
        \A r \in inflight : globalRegion # None /\ r.request.signedWith.region = globalRegion[1]

\* Two records are equal in every field except lastModified.
EqualButLastModified(a, b) == [a EXCEPT !.lastModified = b.lastModified] = b

\* C16: uploading the same file twice to the same key (twice in one call, or in
\* two calls), the remote accepting the PUTs, succeeds both times: upload does
\* not reject, returns one record per file, and the records are equal in every
\* field except lastModified.
C16_RepeatedUploadSucceeds ==
    op = "upload" =>
        /\ pc = "rejected" => faults # {}
        /\ pc = "resolved" =>
              /\ Len(result[1]) = Len(files)
              /\ \A i, j \in 1..Len(result[1]) :
                    EqualButLastModified(result[1][i], result[1][j])
              /\ \A u \in UploadedRecords : \A i \in 1..Len(result[1]) :
                    EqualButLastModified(u, result[1][i])

\* C16 witness: a file was uploaded in a first call and twice more in a second
\* call; the bucket holds one object and the records differ in lastModified.
C16_Witness ==
    /\ UploadResolved
    /\ Len(files) = 2
    /\ Len(result[1]) = 2
    /\ result[1][1].lastModified # result[1][2].lastModified
    /\ \E u \in UploadedRecords : u.lastModified # result[1][1].lastModified
    /\ Cardinality(remoteObjects) = 1

---------------------------------------------------------------------------
(* search while time passes.                                               *)

\* Time passes while the invocation runs (signing and fetch are awaited).
tick ==
    /\ pc \in {"called", "loop", "awaiting", "process"}
    /\ clock < MaxClock
    /\ clock' = clock + 1
    /\ UNCHANGED <<inputs, callerVars, signing, remoteObjects, searchLocals, fileIdx,
                   uploadedAssets, inflight, fetchCount, served, lastBody, putLog, faults,
                   result, pc>>

SigningNext ==
    \/ SearchNext
    \/ tick

SigningInit ==
    /\ op = "search"
    /\ apiKey = ValidKey
    /\ query = <<>>
    /\ settings \in SettingsSet
    /\ files = <<>>
    /\ globalRegion \in GlobalRegions
    /\ finalPage \in 1..MaxFinalPage
    /\ remoteObjects = {Obj(Some(<<"A", ".", "j", "p", "g">>), 1, DateAt(1))}
    /\ history = <<>>
    /\ NoPanel
    /\ FreshInvocation

SigningSpec == SigningInit /\ [][SigningNext]_vars

\* C17: each list request of a search is signed by its own getSignedRequest
\* call, made after the previous page's response arrived and with a timestamp
\* taken at that call; no signed request is sent more than once.
C17_EachPageSignedAfresh ==
    op = "search" =>
        /\ signCount = fetchCount
        /\ (lastSent = None) <=> (fetchCount = 0)
        /\ lastSent # None =>
            /\ lastSent[1].signing = fetchCount
            /\ lastSent[1].amzDate = lastSent[1].sentAt
            /\ lastSent[1].amzDate >= lastSent[1].answeredAt
            /\ \A r \in inflight : r.request.amzDate = lastSent[1].amzDate

\* C17 witness: the third list request was signed and sent at time 2, after the
\* second answer had arrived at time 2.
C17_Witness ==
    /\ op = "search"
    /\ fetchCount = 3
    /\ lastSent # None
    /\ lastSent[1].signing = 3
    /\ lastSent[1].amzDate = 2
    /\ lastSent[1].answeredAt = 2
    /\ pc = "awaiting"

---------------------------------------------------------------------------
(* search with a query, on a remote that honours the prefix parameter.      *)

FilterQueries ==
    { <<>>, <<"a">>, <<"A">>, <<"J", "P">>, <<".", "t">>, <<"d", "/">> }

\* The objects under a path prefix ('' for the whole bucket): two whose names
\* differ in case only, one with the prefix text inside its name, a text file
\* and a directory placeholder.
ObjectsUnder(prefixPath) ==
    { Obj(Some(prefixPath \o <<"A", ".", "j", "p", "g">>), 1, DateAt(1)),
      Obj(Some(prefixPath \o <<"a", ".", "J", "P", "G">>), 1, DateAt(2)),
      Obj(Some(prefixPath \o <<"d", "/", "a", ".", "m", "p", "4">>), 1, DateAt(1)),
      Obj(Some(prefixPath \o <<"b", ".", "t", "x", "t">>), 0, DateAt(2)),
      Obj(Some(prefixPath \o <<"d", "/">>), 0, DateAt(2)) }

FilterInit ==
    /\ op = "search"
    /\ apiKey = ValidKey
    /\ query \in FilterQueries
    /\ settings \in SettingsSet
    /\ files = <<>>
    /\ globalRegion \in GlobalRegions
    /\ finalPage \in {1, 2}
    /\ remoteObjects = ObjectsUnder(prefixPathOf(settings))
    /\ history = <<>>
    /\ NoPanel
    /\ FreshInvocation

FilterSpec == FilterInit /\ [][SearchNext]_vars

\* The key without the path prefix it starts with.
WithoutPrefix(key, prefixPath) ==
    IF Len(key) >= Len(prefixPath) /\ SubSeq(key, 1, Len(prefixPath)) = prefixPath
    THEN SubSeq(key, Len(prefixPath) + 1, Len(key))
    ELSE key

\* name contains q, letters compared without regard to case.
ContainsIgnoringCase(name, q) ==
    \E at \in 0..(Len(name) - Len(q)) :
        \A j \in 1..Len(q) : LowerChar(name[at + j]) = LowerChar(q[j])

\* The listed objects that are no directory placeholder and, for a non-empty
\* query, whose file name contains the query.
MatchingListing ==
    SelectSeq(served,
        LAMBDA o : /\ IsSome(o.key)
                   /\ ~IsDirectoryMarker(o.key[1], o.size)
                   /\ \/ query = <<>>
                      \/ ContainsIgnoringCase(
                             WithoutPrefix(o.key[1], prefixPathOf(settings)), query))

\* C18: for a non-empty query search returns exactly the listed non-directory
\* objects whose file name (the key without the path prefix) contains the query,
\* compared case-insensitively; for an empty query it filters no object out.
C18_QueryFiltersByFileName ==
    (SearchResolved /\ faults \cap {"status", "transport", "body"} = {})
        => SameBag(ReturnedObjects, MatchingListing)

\* C18 witness: with path prefix d and query JP, the listing held d/A.jpg,
\* d/d/a.mp4 and d/a.JPG; the search returned the two jpg objects.
C18_Witness ==
    /\ SearchResolved
    /\ query = <<"J", "P">>
    /\ prefixPathOf(settings) = <<"d", "/">>
    /\ Len(served) = 3
    /\ \E n \in 1..3 : served[n].key = Some(<<"d", "/", "d", "/", "a", ".", "m", "p", "4">>)
    /\ Len(result[1]) = 2
    /\ result[1][1].fileName = <<"a", ".", "J", "P", "G">>
    /\ result[1][2].fileName = <<"A", ".", "j", "p", "g">>

\* The URLs of one returned asset, given the effective base URL.
HasDocumentedURLs(a, base) ==
    /\ a.downloadURL = base \o <<"/">> \o a.id
    /\ a.previewURL = IF a.kind = "image" THEN a.downloadURL ELSE <<>>

\* C19 (as claimed): every asset search returns has downloadURL equal to the
\* effective base URL (the custom domain if one is configured, else the
\* bucket's default endpoint) + '/' + key, and previewURL equal to downloadURL
\* for an image and to '' for every other kind.
C19_SearchURLsFromEffectiveBase ==
    SearchResolved =>
        \A i \in 1..Len(result[1]) :
            HasDocumentedURLs(result[1][i], BaseByPrecedence(settings, apiKey))

\* C19, where settings.customDomain is absent or not empty.
C19_URLsUnlessEmptySetting ==
    (SearchResolved /\ settings.customDomain # Some(<<>>)) =>
        \A i \in 1..Len(result[1]) :
            HasDocumentedURLs(result[1][i], BaseByPrecedence(settings, apiKey))

\* C19, the shape of the URLs alone: previewURL is downloadURL for an image and
\* '' otherwise, and downloadURL ends in '/' + key.
C19_PreviewOnlyForImages ==
    SearchResolved =>
        \A i \in 1..Len(result[1]) :
            LET a == result[1][i]
                n == Len(a.downloadURL) - Len(a.id)
            IN  /\ a.previewURL = IF a.kind = "image" THEN a.downloadURL ELSE <<>>
                /\ n >= 1
                /\ SubSeq(a.downloadURL, n, Len(a.downloadURL)) = <<"/">> \o a.id

---------------------------------------------------------------------------
(* The external-asset panel: selectAsset (part_001, lines 124-150).          *)

\* Most assets the user selects in one panel.
MaxSelections == 2

\* if (hotlinking) { onSelect?.({ url: downloadURL, credit }); return; }
\* TRUE when selectAsset goes on to fetch the asset.
DownloadsAlways(hot) == TRUE
Downloads(hot) == ~hot

\* onSelect?.(resource): the log of the handler's calls after this one.
Handed(log, given, resource) == IF given THEN Append(log, resource) ELSE log

\* The assets the grid shows: searchResults, which holds what the panel's last
\* settled search returned (where one search is followed step by step, its
\* result once it has resolved).
ShownAssets ==
    IF searchResults # None THEN searchResults[1]
    ELSE IF SearchResolved THEN result[1] ELSE <<>>

\* Lines 124-134: the user selects one of the assets shown (the grid is shown
\* when error is not set and searchResults is not empty).  With hotlinking the
\* URL is handed over at once; otherwise the asset's downloadURL is fetched.
\* An asset of this client has no credit.
selectAsset ==
    /\ panelError = None
    /\ Len(selections) < MaxSelections
    /\ \E i \in 1..Len(ShownAssets) :
        LET asset == ShownAssets[i] IN
        /\ selections' = Append(selections, asset)
        /\ IF Downloads(hotlinking)
           THEN /\ downloads' = Append(downloads,
                                   [url |-> asset.downloadURL, fileName |-> asset.fileName,
                                    state |-> "pending"])
                /\ UNCHANGED onSelectLog
           ELSE /\ onSelectLog' =
                     Handed(onSelectLog, onSelectGiven,
                            [url |-> Some(asset.downloadURL), file |-> None, credit |-> None])
                /\ UNCHANGED downloads
    /\ UNCHANGED <<inputs, history, hotlinking, onSelectGiven, panelError, signing,
                   panelSearchVars, otherCallers, remoteObjects, searchLocals, uploadLocals, inflight, fetchCount, served,
                   lastBody, putLog, faults, result, pc>>

\* Lines 134-144: the response is OK and its blob arrives; the file made of it
\* is handed to onSelect.
downloadOk ==
    /\ \E n \in 1..Len(downloads) :
        /\ downloads[n].state = "pending"
        /\ downloads' = [downloads EXCEPT ![n].state = "ok"]
        /\ onSelectLog' =
             Handed(onSelectLog, onSelectGiven,
                    [url |-> None,
                     file |-> Some([name |-> downloads[n].fileName, blobOf |-> n]),
                     credit |-> None])
    /\ UNCHANGED <<inputs, history, hotlinking, onSelectGiven, selections, panelError,
                   signing, panelSearchVars, otherCallers, remoteObjects, searchLocals, uploadLocals, inflight, fetchCount,
                   served, lastBody, putLog, faults, result, pc>>

\* Lines 134-149: fetch rejects, the response is not OK, or blob() rejects; the
\* catch sets error and onSelect is not called.
downloadFails ==
    /\ \E n \in 1..Len(downloads) :
        /\ downloads[n].state = "pending"
        /\ \E how \in {"transport", "status", "body"} :
             downloads' = [downloads EXCEPT ![n].state = how]
    /\ panelError' = Some("image_fetch_failed")
    /\ UNCHANGED <<inputs, history, hotlinking, onSelectGiven, selections, onSelectLog,
                   signing, panelSearchVars, otherCallers, remoteObjects, searchLocals, uploadLocals, inflight, fetchCount,
                   served, lastBody, putLog, faults, result, pc>>

PanelNext ==
    \/ SearchNext
    \/ selectAsset
    \/ downloadOk
    \/ downloadFails

\* A panel of a provider with or without hotlinking, whose search lists a
\* bucket of an image and a text file.
PanelInit ==
    /\ op = "search"
    /\ apiKey = ValidKey
    /\ query = <<>>
    /\ settings = NoSettings
    /\ files = <<>>
    /\ globalRegion \in GlobalRegions
    /\ finalPage = 1
    /\ remoteObjects = { Obj(Some(<<"A", ".", "j", "p", "g">>), 1, DateAt(2)),
                         Obj(Some(<<"b", ".", "t", "x", "t">>), 1, DateAt(1)) }
    /\ history = <<>>
    /\ hotlinking \in {r2Hotlinking, TRUE}
    /\ onSelectGiven \in BOOLEAN
    /\ FreshInvocation

PanelSpec == PanelInit /\ [][PanelNext]_vars

\* The downloads that ended well, and those that failed.
DownloadsOk == {n \in 1..Len(downloads) : downloads[n].state = "ok"}
DownloadsFailed ==
    {n \in 1..Len(downloads) : downloads[n].state \in {"transport", "status", "body"}}

\* C20: with hotlinking true, selecting an asset issues no download request and
\* hands the caller the asset's downloadURL; with hotlinking false the panel
\* fetches downloadURL and hands the caller a file, or enters the error state
\* without calling onSelect when the fetch fails or the response is not OK.
C20_HotlinkingSkipsDownload ==
    /\ hotlinking =>
        /\ downloads = <<>>
        /\ panelError = None
        /\ onSelectGiven =>
             onSelectLog = [i \in 1..Len(selections) |->
                              [url |-> Some(selections[i].downloadURL), file |-> None,
                               credit |-> None]]
    /\ ~hotlinking =>
        /\ Len(downloads) = Len(selections)
        /\ \A n \in 1..Len(downloads) : downloads[n].url = selections[n].downloadURL
        /\ \A i \in 1..Len(onSelectLog) :
             /\ onSelectLog[i].url = None
             /\ onSelectLog[i].file # None
             /\ onSelectLog[i].file[1].name = selections[onSelectLog[i].file[1].blobOf].fileName
        /\ onSelectGiven =>
             /\ Len(onSelectLog) = Cardinality(DownloadsOk)
             /\ {onSelectLog[i].file[1].blobOf : i \in 1..Len(onSelectLog)} = DownloadsOk
        /\ (panelError # None) <=> (DownloadsFailed # {})
    /\ ~onSelectGiven => onSelectLog = <<>>

\* C20 witness: without hotlinking, the first selected asset was downloaded and
\* handed over as a file and the download of the second failed.
C20_Witness ==
    /\ ~hotlinking
    /\ onSelectGiven
    /\ Len(downloads) = 2
    /\ downloads[1].state = "ok"
    /\ downloads[2].state = "status"
    /\ Len(onSelectLog) = 1
    /\ panelError = Some("image_fetch_failed")

\* C20 witness, hotlinking: two assets were selected and their URLs handed over.
C20_HotlinkingWitness ==
    /\ hotlinking
    /\ onSelectGiven
    /\ Len(selections) = 2
    /\ Len(onSelectLog) = 2
    /\ downloads = <<>>

---------------------------------------------------------------------------
(* The external-asset panel: its searches, uploads and error state          *)
(* (part_001, lines 89-116, 152-198, 203-296).                             *)

\* Most searchAssets calls of one panel.
MaxSearches == 2

\* The values the searchTerms prop takes.
PanelTerms == {<<>>, <<"A">>}

\* What the provider lists while the panel is open.
PanelListing ==
    << Obj(Some(<<"A", ".", "j", "p", "g">>), 1, DateAt(2)),
       Obj(Some(<<"b", ".", "t", "x", "t">>), 1, DateAt(1)) >>

\* What search(query, ...) resolves with: the listed objects as one faultless
\* page, filtered and sorted as search does.
ResultsFor(q) ==
    StableSort(assetsOf(CollectedFrom(PanelListing), q, NoSettings, ValidKey))

\* A promise the panel awaits: a search (its position among the searchAssets
\* calls and its query) or the upload.
SearchCall(n, q) == [kind |-> "search", seq |-> n, query |-> q]
UploadCall == [kind |-> "upload", seq |-> 0, query |-> <<>>]

\* searchAssets up to its await (lines 100-110): searchResults = null; error is
\* left as it is.
searchAssetsBeginsClearingError(error) == [searchResults |-> None, error |-> None]
searchAssetsBegins(error) == [searchResults |-> None, error |-> error]

\* searchAssets(q) is called: by onMount, by the debounce timer or after an
\* upload.
Issue(q) ==
    /\ Len(searchesIssued) < MaxSearches
    /\ searchResults' = searchAssetsBegins(panelError).searchResults
    /\ panelError' = searchAssetsBegins(panelError).error
    /\ searchesIssued' = Append(searchesIssued, q)

\* onMount (lines 152-172): with credentials stored, searchAssets().
mountSearch ==
    /\ searchesIssued = <<>>
    /\ Issue(<<>>)
    /\ pendingCalls' = pendingCalls \cup {SearchCall(1, <<>>)}
    /\ UNCHANGED <<inputs, history, hotlinking, onSelectGiven, selections, downloads,
                   onSelectLog, otherCallers, signing, remoteObjects, searchLocals,
                   uploadLocals, inflight, fetchCount, served, lastBody, putLog, faults,
                   result, pc>>

\* $effect (lines 174-182): one second after searchTerms was last set, the
\* timer calls searchAssets(searchTerms).
debouncedSearch ==
    /\ searchesIssued # <<>>
    /\ \E q \in PanelTerms :
        /\ Issue(q)
        /\ pendingCalls' = pendingCalls \cup {SearchCall(Len(searchesIssued) + 1, q)}
    /\ UNCHANGED <<inputs, history, hotlinking, onSelectGiven, selections, downloads,
                   onSelectLog, otherCallers, signing, remoteObjects, searchLocals,
                   uploadLocals, inflight, fetchCount, served, lastBody, putLog, faults,
                   result, pc>>

\* Line 104: a pending search resolves and its array is assigned, whichever
\* searches were issued before or after it.
searchResolves ==
    /\ \E c \in pendingCalls :
        /\ c.kind = "search"
        /\ pendingCalls' = pendingCalls \ {c}
        /\ searchResults' = Some(ResultsFor(c.query))
    /\ UNCHANGED <<inputs, history, panelVars, searchesIssued, otherCallers, signing,
                   remoteObjects, searchLocals, uploadLocals, inflight, fetchCount, served,
                   lastBody, putLog, faults, result, pc>>

\* Lines 111-115: a pending search rejects; the catch sets error.
searchRejects ==
    /\ \E c \in pendingCalls :
        /\ c.kind = "search"
        /\ pendingCalls' = pendingCalls \ {c}
    /\ panelError' = Some("search_fetch_failed")
    /\ UNCHANGED <<inputs, history, hotlinking, onSelectGiven, selections, downloads,
                   onSelectLog, searchResults, searchesIssued, otherCallers, signing,
                   remoteObjects, searchLocals, uploadLocals, inflight, fetchCount, served,
                   lastBody, putLog, faults, result, pc>>

\* The upload button (lines 203-224, 256-282), shown when error is not set and
\* a search has resolved: files are chosen and serviceProps.upload is awaited.
uploadChosen ==
    /\ panelError = None
    /\ searchResults # None
    /\ UploadCall \notin pendingCalls
    /\ pendingCalls' = pendingCalls \cup {UploadCall}
    /\ UNCHANGED <<inputs, history, panelVars, searchResults, searchesIssued,
                   otherCallers, signing, remoteObjects, searchLocals, uploadLocals,
                   inflight, fetchCount, served, lastBody, putLog, faults, result, pc>>

\* Lines 225-226, 283-284: the upload resolved; searchAssets() refreshes.
uploadResolves ==
    /\ UploadCall \in pendingCalls
    /\ Issue(<<>>)
    /\ pendingCalls' = (pendingCalls \ {UploadCall})
                           \cup {SearchCall(Len(searchesIssued) + 1, <<>>)}
    /\ UNCHANGED <<inputs, history, hotlinking, onSelectGiven, selections, downloads,
                   onSelectLog, otherCallers, signing, remoteObjects, searchLocals,
                   uploadLocals, inflight, fetchCount, served, lastBody, putLog, faults,
                   result, pc>>

\* Lines 227-238, 285-296: the upload rejected; the catch sets error.
uploadRejects ==
    /\ UploadCall \in pendingCalls
    /\ pendingCalls' = pendingCalls \ {UploadCall}
    /\ \E e \in {"cors_error", "upload_failed"} : panelError' = Some(e)
    /\ UNCHANGED <<inputs, history, hotlinking, onSelectGiven, selections, downloads,
                   onSelectLog, searchResults, searchesIssued, otherCallers, signing,
                   remoteObjects, searchLocals, uploadLocals, inflight, fetchCount, served,
                   lastBody, putLog, faults, result, pc>>

PanelSearchNext ==
    \/ mountSearch
    \/ debouncedSearch
    \/ searchResolves
    \/ searchRejects
    \/ selectAsset
    \/ downloadOk
    \/ downloadFails
    \/ uploadChosen
    \/ uploadResolves
    \/ uploadRejects

\* The panel of this provider (hotlinking false) before it is mounted.
PanelSearchInit ==
    InitWith({"search"}, {ValidKey}, {<<>>}, {NoSettings}, {<<>>}, {None}, {1})

PanelSearchSpec == PanelSearchInit /\ [][PanelSearchNext]_vars

\* Every search issued has settled, and none has failed the panel.
SearchesSettled ==
    /\ \A c \in pendingCalls : c.kind # "search"
    /\ panelError = None

\* C27 (as claimed): when two or more searches were in flight and all have
\* completed, searchResults holds the results of the search issued last,
\* whatever the order in which the responses arrived.
C27_LastIssuedSearchShown ==
    (Len(searchesIssued) >= 2 /\ SearchesSettled) =>
        searchResults = Some(ResultsFor(searchesIssued[Len(searchesIssued)]))

\* C27, what holds: after all searches have completed, searchResults holds the
\* results of one of the searches issued (the one whose response came last).
C27_SomeIssuedSearchShown ==
    (Len(searchesIssued) >= 1 /\ SearchesSettled) =>
        \E n \in 1..Len(searchesIssued) :
            searchResults = Some(ResultsFor(searchesIssued[n]))

\* C29: once error is set, it is set in every later state of the panel.
C29_ErrorNeverCleared ==
    [][panelError # None => panelError' # None]_vars

\* C29 witness: the download of a selected asset failed and a search issued
\* afterwards has resolved with results; error is still set.
C29_Witness ==
    /\ DownloadsFailed # {}
    /\ panelError = Some("image_fetch_failed")
    /\ Len(searchesIssued) = 2
    /\ pendingCalls = {}
    /\ searchResults = Some(ResultsFor(searchesIssued[2]))
    /\ searchesIssued[2] # searchesIssued[1]
    /\ searchResults[1] # <<>>

---------------------------------------------------------------------------
(* upload: what a rejected call leaves in the bucket.                      *)

\* The key file i of the call is written under.
KeyOfFile(i) == filePathOf(settings, files[i].name)

\* The last of files 1..n written under the key of file i.
LastWriteOf(i, n) ==
    CHOOSE j \in i..n :
        /\ KeyOfFile(j) = KeyOfFile(i)
        /\ \A m \in i..n : KeyOfFile(m) = KeyOfFile(i) => m <= j

\* C28: when upload rejects because the PUT of file k failed, the objects the
\* PUTs of files 1..k-1 wrote are still in the bucket, the client has made no
\* request other than the k PUTs, and the caller has received no record.
C28_EarlierObjectsRemain ==
    (op = "upload" /\ pc = "rejected" /\ faults # {}) =>
        /\ result = None
        /\ fetchCount = fileIdx
        /\ putLog = [i \in 1..fileIdx |-> i]
        /\ \A i \in 1..(fileIdx - 1) :
             \E o \in remoteObjects :
                 /\ o.key = Some(KeyOfFile(i))
                 /\ o.size = files[LastWriteOf(i, fileIdx - 1)].size

\* C28 witness: the PUT of the third file failed; the objects of the first two,
\* written under different keys, are in the bucket and upload rejected.
C28_Witness ==
    /\ op = "upload"
    /\ pc = "rejected"
    /\ faults # {}
    /\ fileIdx = 3
    /\ KeyOfFile(1) # KeyOfFile(2)
    /\ \A i \in 1..2 : \E o \in remoteObjects : o.key = Some(KeyOfFile(i))
    /\ \A i \in 1..2 : \A o \in Objects : o.key # Some(KeyOfFile(i))
    /\ result = None

---------------------------------------------------------------------------
(* The entry list item                                                     *)
(* (src/src/lib/components/contents/list/entry-list-item.svelte).          *)

\* Most updateSelection calls followed.
MaxUpdates == 4

\* The entries listed, each shown by its own item component.
ListedEntries == {"e1", "e2", "e3"}

\* entries.indexOf(entry): 0-based, -1 when the entry is not in the array.
indexOf(entries, entry) ==
    LET hits == {i \in 1..Len(entries) : entries[i] = entry}
    IN  IF hits = {} THEN -1 ELSE (CHOOSE i \in hits : \A j \in hits : i <= j) - 1

\* entries.splice(index, 1)
splice(entries, index) ==
    SubSeq(entries, 1, index) \o SubSeq(entries, index + 2, Len(entries))

\* The updater of lines 54-66.
updaterPushingAlways(entries, entry, selected) ==
    LET index == indexOf(entries, entry)
        pushed == IF selected THEN Append(entries, entry) ELSE entries
    IN  IF ~selected /\ index > -1 THEN splice(pushed, index) ELSE pushed
updater(entries, entry, selected) ==
    LET index == indexOf(entries, entry)
        pushed == IF selected /\ index = -1 THEN Append(entries, entry) ELSE entries
    IN  IF ~selected /\ index > -1 THEN splice(pushed, index) ELSE pushed

\* updateSelection(selected) of the item of one entry, called by the row's
\* onChange (line 73) or by the checkbox's onChange (line 88).
updateSelection ==
    /\ Len(selectionUpdates) < MaxUpdates
    /\ \E entry \in ListedEntries, selected \in BOOLEAN :
        /\ selectedEntries' = updater(selectedEntries, entry, selected)
        /\ selectionUpdates' = Append(selectionUpdates,
                                      [entry |-> entry, selected |-> selected])
    /\ UNCHANGED <<inputs, history, panelVars, panelSearchVars, signerCalls, signing,
                   remoteObjects, searchLocals, uploadLocals, inflight, fetchCount, served,
                   lastBody, putLog, faults, result, pc>>

EntryListNext == updateSelection

EntryListInit ==
    InitWith({"search"}, {ValidKey}, {<<>>}, {NoSettings}, {<<>>}, {None}, {1})

EntryListSpec == EntryListInit /\ [][EntryListNext]_vars

\* The calls made for one entry, by position in selectionUpdates.
UpdatesOf(entry) ==
    {n \in 1..Len(selectionUpdates) : selectionUpdates[n].entry = entry}

\* The last call made for an entry (0: none).
LastUpdateOf(entry) ==
    IF UpdatesOf(entry) = {} THEN 0
    ELSE CHOOSE n \in UpdatesOf(entry) : \A m \in UpdatesOf(entry) : m <= n

\* The call that put a selected entry where it stands: the first
\* updateSelection(true) since it was last deselected.
SelectedBy(entry) ==
    CHOOSE n \in UpdatesOf(entry) :
        /\ selectionUpdates[n].selected
        /\ \A m \in UpdatesOf(entry) : m > n => selectionUpdates[m].selected
        /\ \A m \in UpdatesOf(entry) :
             (m < n /\ selectionUpdates[m].selected) =>
                 \E d \in UpdatesOf(entry) :
                     m < d /\ d < n /\ ~selectionUpdates[d].selected

\* C30: after any sequence of updateSelection calls, selectedEntries holds each
\* entry at most once; an entry is in it exactly when the last call for it was
\* updateSelection(true); and the entries stand in the order in which they were
\* selected, so that a call for one entry changes neither the membership nor the
\* relative order of the others.
C30_SelectionHasNoDuplicates ==
    /\ \A i, j \in 1..Len(selectedEntries) :
         selectedEntries[i] = selectedEntries[j] => i = j
    /\ \A e \in ListedEntries :
         (\E i \in 1..Len(selectedEntries) : selectedEntries[i] = e)
             <=> (LastUpdateOf(e) # 0 /\ selectionUpdates[LastUpdateOf(e)].selected)
    /\ \A i, j \in 1..Len(selectedEntries) :
         i < j => SelectedBy(selectedEntries[i]) < SelectedBy(selectedEntries[j])

\* C30 witness: e1 was selected twice in a row (row and checkbox handler), then
\* e2 was selected and e1 deselected: only e2 is left.
C30_Witness ==
    /\ Len(selectionUpdates) = 4
    /\ selectionUpdates[1] = [entry |-> "e1", selected |-> TRUE]
    /\ selectionUpdates[2] = [entry |-> "e1", selected |-> TRUE]
    /\ selectionUpdates[3] = [entry |-> "e2", selected |-> TRUE]
    /\ selectionUpdates[4] = [entry |-> "e1", selected |-> FALSE]
    /\ selectedEntries = <<"e2">>

---------------------------------------------------------------------------
(* getSignedRequest in detail (lines 967-1114): the canonical request, the *)
(* string to sign, the signing key, the Authorization header, the URL and  *)
(* the returned header map.  Here every string is spelled out character by *)
(* character, except the digests, which stand as one element each.  An     *)
(* object is the sequence of its <<key, value>> entries in insertion order *)
(* (the order of Object.keys and Object.entries for names that are not     *)
(* array indices).                                                         *)

\* The printable ASCII characters in code order: AsciiChars[i] has code 31 + i
\* (the grave accent, which no string here contains, stands under its name).
AsciiChars ==
    <<" ", "!", "\"", "#", "$", "%", "&", "'", "(", ")", "*", "+", ",", "-", ".", "/",
      "0", "1", "2", "3", "4", "5", "6", "7", "8", "9", ":", ";", "<", "=", ">", "?",
      "@", "A", "B", "C", "D", "E", "F", "G", "H", "I", "J", "K", "L", "M", "N", "O",
      "P", "Q", "R", "S", "T", "U", "V", "W", "X", "Y", "Z", "[", "\\", "]", "^", "_",
      "U+0060", "a", "b", "c", "d", "e", "f", "g", "h", "i", "j", "k", "l", "m", "n", "o",
      "p", "q", "r", "s", "t", "u", "v", "w", "x", "y", "z", "{", "|", "}", "~">>
AsciiSet == {AsciiChars[i] : i \in 1..Len(AsciiChars)}

\* String.prototype.charCodeAt(0) of a one-character string.
charCodeAt ==
    [c \in AsciiSet |-> 31 + CHOOSE i \in 1..Len(AsciiChars) : AsciiChars[i] = c]

\* The order Array.prototype.sort() gives strings when it has no comparator: by
\* UTF-16 code units, a proper prefix before the longer string.
RECURSIVE CodeUnitsBefore(_, _)
CodeUnitsBefore(s, t) ==
    IF s = <<>> THEN t # <<>>
    ELSE IF t = <<>> THEN FALSE
    ELSE IF s[1] = t[1] THEN CodeUnitsBefore(Tail(s), Tail(t))
    ELSE charCodeAt[s[1]] < charCodeAt[t[1]]

\* list without its i-th element.
Without(list, i) == SubSeq(list, 1, i - 1) \o SubSeq(list, i + 1, Len(list))

\* Array.prototype.sort() on distinct strings.
RECURSIVE Sorted(_)
Sorted(list) ==
    IF list = <<>> THEN <<>>
    ELSE LET first == CHOOSE i \in 1..Len(list) :
                          \A j \in 1..Len(list) : ~CodeUnitsBefore(list[j], list[i])
         IN  <<list[first]>> \o Sorted(Without(list, first))

\* Array.prototype.join
RECURSIVE Join(_, _)
Join(list, separator) ==
    IF list = <<>> THEN <<>>
    ELSE IF Len(list) = 1 THEN list[1]
    ELSE list[1] \o separator \o Join(Tail(list), separator)

\* Object.keys(obj)
ObjectKeys(obj) == [i \in 1..Len(obj) |-> obj[i][1]]

\* key in obj
HasKey(obj, key) == \E i \in 1..Len(obj) : obj[i][1] = key

\* obj[key] of a key the object has.
ValueOf(obj, key) == obj[CHOOSE i \in 1..Len(obj) : obj[i][1] = key][2]

\* obj[key] = value: a key the object has keeps its place, a new key goes last.
Assign(obj, key, value) ==
    IF HasKey(obj, key)
    THEN [i \in 1..Len(obj) |-> IF obj[i][1] = key THEN <<key, value>> ELSE obj[i]]
    ELSE Append(obj, <<key, value>>)

\* { ...obj, ...more }
RECURSIVE Spread(_, _)
Spread(obj, more) ==
    IF more = <<>> THEN obj
    ELSE Spread(Assign(obj, more[1][1], more[1][2]), Tail(more))

\* Number.prototype.toString(16).toUpperCase() of a character code, two digits.
HexDigits ==
    <<"0", "1", "2", "3", "4", "5", "6", "7", "8", "9", "A", "B", "C", "D", "E", "F">>
HexOf(code) == <<HexDigits[(code \div 16) + 1], HexDigits[(code % 16) + 1]>>

\* The characters encodeURIComponent leaves as they are:
\* A-Z a-z 0-9 - _ . ! ~ * ' ( )
DigitSet == {"0", "1", "2", "3", "4", "5", "6", "7", "8", "9"}
LowerSet == {LowerCaseLetters[i] : i \in 1..26}
UriUnescaped ==
    UpperSet \cup LowerSet \cup DigitSet \cup {"-", "_", ".", "!", "~", "*", "'", "(", ")"}

\* encodeURIComponent on ASCII text: every other character becomes %XX.
RECURSIVE encodeURIComponent(_)
encodeURIComponent(s) ==
    IF s = <<>> THEN <<>>
    ELSE (IF s[1] \in UriUnescaped THEN <<s[1]>> ELSE <<"%">> \o HexOf(charCodeAt[s[1]]))
         \o encodeURIComponent(Tail(s))

\* .replace(/[!'()*]/g, (c) => `%${c.charCodeAt(0).toString(16).toUpperCase()}`)
RECURSIVE replaceSubDelims(_)
replaceSubDelims(s) ==
    IF s = <<>> THEN <<>>
    ELSE (IF s[1] \in {"!", "'", "(", ")", "*"}
          THEN <<"%">> \o HexOf(charCodeAt[s[1]]) ELSE <<s[1]>>)
         \o replaceSubDelims(Tail(s))

\* encodedKey, encodedValue (lines 996-1004).
encodedOnlyByEncodeURIComponent(text) == encodeURIComponent(text)
encoded(text) == replaceSubDelims(encodeURIComponent(text))

\* String.prototype.trim (the only white space here is the space).
RECURSIVE TrimStart(_)
TrimStart(s) == IF s # <<>> /\ s[1] = " " THEN TrimStart(Tail(s)) ELSE s
RECURSIVE TrimEnd(_)
TrimEnd(s) ==
    IF s # <<>> /\ s[Len(s)] = " " THEN TrimEnd(SubSeq(s, 1, Len(s) - 1)) ELSE s
Trim(s) == TrimEnd(TrimStart(s))

\* .replace(/\s+/g, ' ')
RECURSIVE CollapseSpaces(_)
CollapseSpaces(s) ==
    IF Len(s) < 2 THEN s
    ELSE IF s[1] = " " /\ s[2] = " " THEN CollapseSpaces(Tail(s))
    ELSE <<s[1]>> \o CollapseSpaces(Tail(s))

\* The Web Crypto primitives are left uninterpreted.  An ArrayBuffer is the pair
\* <<"ArrayBuffer", name>>, where name says how the bytes were computed: two
\* buffers are equal exactly when they were computed alike from equal inputs.
IsBuffer(v) == Len(v) = 2 /\ v[1] = "ArrayBuffer"

\* new TextEncoder().encode(message): the UTF-8 bytes; undefined encodes as ''.
encode(message) ==
    <<"ArrayBuffer", "utf8(" \o ToString(IF message = None THEN <<>> ELSE message[1]) \o ")">>

\* crypto.subtle.digest('SHA-256', buffer)
digest(buffer) == <<"ArrayBuffer", "SHA-256(" \o buffer[2] \o ")">>

\* crypto.subtle.sign('HMAC', importKey('raw', keyBuffer, ...), data)
sign(keyBuffer, data) ==
    <<"ArrayBuffer", "HMAC-SHA256(" \o keyBuffer[2] \o ", " \o data[2] \o ")">>

\* bufferToHex (lines 943-947): the hex text of a buffer, as one element.
bufferToHex(buffer) == <<"hex(" \o buffer[2] \o ")">>

\* sha256 (lines 905-911)
sha256(message) == bufferToHex(digest(encode(Some(message))))

\* hmacSha256 (lines 919-936): a string key is encoded, a buffer key is taken as
\* it is; message may be undefined.
hmacSha256KeyedWithHex(key, message) ==
    sign(IF IsBuffer(key) THEN encode(Some(bufferToHex(key))) ELSE encode(Some(key)),
         encode(message))
hmacSha256(key, message) ==
    LET keyBuffer == IF ~IsBuffer(key) THEN encode(Some(key)) ELSE key
    IN  sign(keyBuffer, encode(message))

\* Date.prototype.toISOString, YYYY-MM-DDTHH:mm:ss.sssZ, for a time value (in
\* milliseconds) within January 1970.
DigitChars == <<"0", "1", "2", "3", "4", "5", "6", "7", "8", "9">>
TwoDigits(n) == <<DigitChars[(n \div 10) + 1], DigitChars[(n % 10) + 1]>>
ThreeDigits(n) == <<DigitChars[(n \div 100) + 1]>> \o TwoDigits(n % 100)
toISOString(date) ==
    LET ms == date.time % 1000
        seconds == (date.time \div 1000) % 60
        minutes == (date.time \div 60000) % 60
        hours == (date.time \div 3600000) % 24
        day == (date.time \div 86400000) + 1
    IN  <<"1", "9", "7", "0", "-", "0", "1", "-">> \o TwoDigits(day) \o <<"T">>
        \o TwoDigits(hours) \o <<":">> \o TwoDigits(minutes) \o <<":">>
        \o TwoDigits(seconds) \o <<".">> \o ThreeDigits(ms) \o <<"Z">>

\* .replace(/[:-]|\.\d{3}/g, '')
RECURSIVE removeDatePunctuation(_)
removeDatePunctuation(s) ==
    IF s = <<>> THEN <<>>
    ELSE IF s[1] \in {":", "-"} THEN removeDatePunctuation(Tail(s))
    ELSE IF /\ s[1] = "."
            /\ Len(s) >= 4
            /\ \A i \in 2..4 : s[i] \in DigitSet
         THEN removeDatePunctuation(SubSeq(s, 5, Len(s)))
    ELSE <<s[1]>> \o removeDatePunctuation(Tail(s))

\* amzDate, dateStamp (lines 984-985)
amzDate(date) == removeDatePunctuation(toISOString(date))
dateStamp(date) == SubSeq(amzDate(date), 1, 8)

\* The header names the signer writes.
HostName == <<"h", "o", "s", "t">>
AmzDateName == <<"x", "-", "a", "m", "z", "-", "d", "a", "t", "e">>
AmzContentName ==
    <<"x", "-", "a", "m", "z", "-", "c", "o", "n", "t", "e", "n", "t", "-",
      "s", "h", "a", "2", "5", "6">>
AuthorizationName ==
    <<"A", "u", "t", "h", "o", "r", "i", "z", "a", "t", "i", "o", "n">>

\* canonicalURI (line 989)
canonicalURI(bucket, path) ==
    IF path # <<>> THEN <<"/">> \o Text(bucket) \o <<"/">> \o path
    ELSE <<"/">> \o Text(bucket) \o <<"/">>

\* canonicalQueryString (lines 992-1008)
canonicalQueryStringInInsertionOrder(queryParams) ==
    Join([i \in 1..Len(queryParams) |->
              encoded(queryParams[i][1]) \o <<"=">> \o encoded(queryParams[i][2])],
         <<"&">>)
canonicalQueryString(queryParams) ==
    LET keys == Sorted(ObjectKeys(queryParams))
    IN  Join([i \in 1..Len(keys) |->
                  encoded(keys[i]) \o <<"=">> \o encoded(ValueOf(queryParams, keys[i]))],
             <<"&">>)

\* payloadHash (line 1011)
payloadHash(payload) == sha256(payload)

\* allHeaders (lines 1015-1020)
allHeaders(account, date, payload, headers) ==
    Spread(<< <<HostName, Text(account) \o <<".r2.cloudflarestorage.com">> >>,
              <<AmzDateName, amzDate(date)>>,
              <<AmzContentName, payloadHash(payload)>> >>,
           headers)

\* canonicalHeaders (lines 1023-1032)
canonicalHeaders(all) ==
    LET keys == Sorted(ObjectKeys(all))
    IN  Join([i \in 1..Len(keys) |->
                  ToLowerCase(keys[i]) \o <<":">>
                  \o CollapseSpaces(Trim(ValueOf(all, keys[i]))) \o <<"\n">>],
             <<>>)

\* signedHeaders (lines 1035-1038)
signedHeaders(all) ==
    LET keys == Sorted(ObjectKeys(all))
    IN  Join([i \in 1..Len(keys) |-> ToLowerCase(keys[i])], <<";">>)

\* canonicalRequest (lines 1041-1048)
canonicalRequest(method, uri, queryString, headerLines, signed, hash) ==
    Join(<<method, uri, queryString, headerLines, signed, hash>>, <<"\n">>)

\* algorithm, credentialScope, stringToSign (lines 1051-1054)
algorithm == <<"AWS4-HMAC-SHA256">>
credentialScope(date, region, service) ==
    dateStamp(date) \o <<"/">> \o Text(region) \o <<"/">> \o service
    \o <<"/", "aws4_request">>
stringToSign(date, scope, request) ==
    Join(<<algorithm, amzDate(date), scope, sha256(request)>>, <<"\n">>)

\* kDate, kRegion, kService, kSigning, signature (lines 1069-1073)
signature(secretAccessKey, date, region, service, toSign) ==
    LET kDate == hmacSha256(<<"AWS4">> \o Text(secretAccessKey), Some(dateStamp(date)))
        kRegion == hmacSha256(kDate, region)
        kService == hmacSha256(kRegion, Some(service))
        kSigning == hmacSha256(kService, Some(<<"aws4_request">>))
    IN  bufferToHex(hmacSha256(kSigning, Some(toSign)))

\* authorization (lines 1076-1080)
authorization(keyId, scope, signed, sig) ==
    Join(<< algorithm \o <<" Credential=">> \o Text(keyId) \o <<"/">> \o scope,
            <<"SignedHeaders=">> \o signed,
            <<"Signature=">> \o sig >>,
         <<", ">>)

\* url (lines 1083-1095)
url(account, bucket, path, queryString) ==
    <<"https://">> \o Text(account) \o <<".r2.cloudflarestorage.com/">>
    \o Text(bucket)
    \o (IF path # <<>> THEN <<"/">> \o path ELSE <<"/">>)
    \o (IF queryString # <<>> THEN <<"?">> \o queryString ELSE <<>>)

\* filteredHeaders (lines 1098-1108)
filteredHeadersComparingExactly(all, auth) ==
    SelectSeq(Assign(all, AuthorizationName, auth), LAMBDA entry : entry[1] # HostName)
filteredHeaders(all, auth) ==
    SelectSeq(Assign(all, AuthorizationName, auth),
              LAMBDA entry : ToLowerCase(entry[1]) # HostName)

\* An option with a default in the destructuring (lines 975-980): the default
\* stands in for undefined only.
OrDefault(option, default) == IF option = None THEN default ELSE option[1]

\* getSignedRequest with `date` settled: new Date(NaN).toISOString() throws a
\* RangeError (line 984), and nothing else in the body throws for string options;
\* otherwise the call logs its intermediate values (lines 1057-1066) and returns
\* { url, headers } (lines 1111-1114).
getSignedRequestOn(options, date) ==
    IF ~date.valid
    THEN [raised |-> Some("RangeError"), logged |-> None, returned |-> None]
    ELSE
    LET path == OrDefault(options.path, <<>>)
        headers == OrDefault(options.headers, <<>>)
        queryParams == OrDefault(options.queryParams, <<>>)
        service == OrDefault(options.service, <<"s", "3">>)
        payload == OrDefault(options.payload, <<>>)
        uri == canonicalURI(options.bucket, path)
        queryString == canonicalQueryString(queryParams)
        all == allHeaders(options.accountId, date, payload, headers)
        headerLines == canonicalHeaders(all)
        signed == signedHeaders(all)
        request == canonicalRequest(options.method, uri, queryString, headerLines,
                                    signed, payloadHash(payload))
        scope == credentialScope(date, options.region, service)
        toSign == stringToSign(date, scope, request)
        sig == signature(options.secretAccessKey, date, options.region, service, toSign)
        auth == authorization(options.accessKeyId, scope, signed, sig)
    IN  [raised |-> None,
         logged |-> Some([amzDate |-> amzDate(date),
                          canonicalURI |-> uri,
                          canonicalQueryString |-> queryString,
                          canonicalHeaders |-> headerLines,
                          signedHeaders |-> signed,
                          canonicalRequest |-> request,
                          stringToSign |-> toSign,
                          credentialScope |-> scope]),
         returned |-> Some([url |-> url(options.accountId, options.bucket, path,
                                        queryString),
                            headers |-> filteredHeaders(all, auth)])]

\* getSignedRequest(options) called when new Date() would read `now`
\* (date = new Date() is the default of line 979).
getSignedRequestReadingTheClock(options, now) == getSignedRequestOn(options, now)
getSignedRequestDetailed(options, now) ==
    getSignedRequestOn(options, OrDefault(options.date, now))

---------------------------------------------------------------------------
(* Calls of getSignedRequest.                                              *)

\* The most calls followed: of any input, and of the inputs that are repeated.
MaxSignerCalls == 1
MaxRepeatedCalls == 3

\* new Date() at the present reading of the clock, which advances by half a second.
Now == DateAt(clock * 500)

Auto == <<"a", "u", "t", "o">>
ContentTypeName == <<"C", "o", "n", "t", "e", "n", "t", "-", "T", "y", "p", "e">>
ListTypeName == <<"l", "i", "s", "t", "-", "t", "y", "p", "e">>
MaxKeysName == <<"m", "a", "x", "-", "k", "e", "y", "s">>
PrefixName == <<"p", "r", "e", "f", "i", "x">>
ContinuationTokenName ==
    <<"c", "o", "n", "t", "i", "n", "u", "a", "t", "i", "o", "n", "-",
      "t", "o", "k", "e", "n">>

\* The options of the first list request of a search without prefix (lines
\* 1327-1352).
ListOptions ==
    [method |-> <<"G", "E", "T">>,
     region |-> Some(Auto),
     accessKeyId |-> Some(<<"i", "d">>),
     secretAccessKey |-> Some(<<"s", "k">>),
     accountId |-> Some(<<"a", "c">>),
     bucket |-> Some(<<"b">>),
     path |-> Some(<<>>),
     headers |-> None,
     queryParams |-> Some(<< <<ListTypeName, <<"2">> >>,
                             <<MaxKeysName, <<"1", "0", "0", "0">> >> >>),
     service |-> None,
     date |-> None,
     payload |-> None]

\* The list requests a search makes: with a prefix, with a continuation token.
ListInputs ==
    {[ListOptions EXCEPT !.queryParams = Some(@[1] \o more)] :
        more \in {<<>>,
                  << <<PrefixName, <<"d", " ", "(", "1", ")", "/">> >> >>,
                  << <<ContinuationTokenName, <<"1", "+", "a", "=">> >> >>,
                  << <<PrefixName, <<"d", "/">> >>,
                     <<ContinuationTokenName, <<"t", "*">> >> >>}}

\* Calls with a missing credential field.
CredentialFields == {"accessKeyId", "secretAccessKey", "accountId", "bucket", "region"}
CredentialInputs == {[ListOptions EXCEPT ![field] = None] : field \in CredentialFields}

\* Calls that give the date.
DateInputs ==
    {[ListOptions EXCEPT !.date = Some(date)] :
        date \in {DateAt(0), DateAt(1), DateAt(86400000), InvalidDate}}

\* Calls with query parameters in some insertion order.
QueryInputs ==
    {[ListOptions EXCEPT !.queryParams = params] :
        params \in {None,
                    Some(<< <<<<"b">>, <<"2">> >>, <<<<"a">>, <<"1">> >> >>),
                    Some(<< <<<<"a">>, <<"1">> >>, <<<<"b">>, <<"2">> >> >>),
                    Some(<< <<<<"a">>, <<"1">> >>, <<<<"B">>, <<"!">> >>,
                            <<<<"a", "b">>, <<>> >> >>)}}

\* Calls with headers: the upload's (lines 1167-1178) and others'.
PutOptions ==
    [ListOptions EXCEPT !.method = <<"P", "U", "T">>,
                        !.path = Some(<<"f", ".", "p", "n", "g">>),
                        !.queryParams = None]
HeaderInputs ==
    {[PutOptions EXCEPT !.headers = Some(headers)] :
        headers \in {<<>>,
                     << <<ContentTypeName, <<"i", "/", "p">> >> >>,
                     << <<<<"Z", "-", "H">>, <<"v">> >> >>,
                     << <<<<"z", "-", "h">>, <<" ", "v", " ", " ", "w", " ">> >>,
                        <<<<"a", "-", "h">>, <<"u">> >> >>,
                     << <<<<"H", "o", "s", "t">>, <<"e">> >> >>,
                     << <<HostName, <<"o">> >> >>,
                     << <<AuthorizationName, <<"x">> >> >>}}

SignerInputs ==
    ListInputs \cup CredentialInputs \cup DateInputs \cup QueryInputs \cup HeaderInputs

\* The inputs of calls that are repeated: the search's and the upload's options,
\* which leave the date to the clock, and two that give the date.
RepeatedInputs ==
    {ListOptions,
     [PutOptions EXCEPT !.headers = Some(<< <<ContentTypeName, <<"i">> >> >>)],
     [ListOptions EXCEPT !.date = Some(DateAt(0))],
     [ListOptions EXCEPT !.date = Some(DateAt(86400000))]}

\* One call of getSignedRequest, from whatever caller.
callGetSignedRequestWith(inputsOfCall, most) ==
    /\ Len(signerCalls) < most
    /\ \E options \in inputsOfCall :
        signerCalls' = Append(signerCalls,
                              [options |-> options,
                               now |-> Now,
                               outcome |-> getSignedRequestDetailed(options, Now)])
    /\ UNCHANGED <<inputs, history, panelVars, panelSearchVars, selectedEntries,
                   selectionUpdates, signing, remoteObjects, searchLocals, uploadLocals,
                   inflight, fetchCount, served, lastBody, putLog, faults, result, pc>>

callGetSignedRequest == callGetSignedRequestWith(SignerInputs, MaxSignerCalls)

SignerNext ==
    \/ callGetSignedRequest
    \/ tick

SignerInit ==
    InitWith({"search"}, {ValidKey}, {<<>>}, {NoSettings}, {<<>>}, {None}, {1})

SignerSpec == SignerInit /\ [][SignerNext]_vars

\* Calls of getSignedRequest one after another, by the search, the upload or
\* anyone else, while time passes.
repeatGetSignedRequest == callGetSignedRequestWith(RepeatedInputs, MaxRepeatedCalls)

RepeatNext ==
    \/ repeatGetSignedRequest
    \/ tick

RepeatSpec == SignerInit /\ [][RepeatNext]_vars

---------------------------------------------------------------------------
(* Properties of getSignedRequest.                                         *)

\* The calls that returned a signed request, and what they returned and logged.
ReturnedCalls == {n \in 1..Len(signerCalls) : signerCalls[n].outcome.returned # None}
ReturnedBy(n) == signerCalls[n].outcome.returned[1]
LoggedBy(n) == signerCalls[n].outcome.logged[1]

\* The query parameters a call was given.
QueryParamsOf(n) == OrDefault(signerCalls[n].options.queryParams, <<>>)

\* The part of a URL after its first '?' ('' when it has none).
QueryPartOf(address) ==
    LET i == IndexOf(address, <<"?">>)
    IN  IF i = 0 THEN <<>> ELSE SubSeq(address, i + 1, Len(address))

\* C25: for any set of query parameters, the canonical query string lists every
\* parameter once as encodedKey=encodedValue, joined by '&', in ascending order of
\* the keys whatever the insertion order of the input, and this same string is
\* the query part of the returned URL (which has no '?' when there is no
\* parameter).
C25_CanonicalQuerySortedByKey ==
    \A n \in ReturnedCalls :
        LET params == QueryParamsOf(n)
            queryString == LoggedBy(n).canonicalQueryString
            pairs == IF queryString = <<>> THEN <<>> ELSE Split(queryString, "&")
        IN  /\ Len(pairs) = Len(params)
            /\ \E at \in [1..Len(pairs) -> 1..Len(params)] :
                /\ \A i \in 1..Len(pairs) :
                     pairs[i] = encoded(params[at[i]][1]) \o <<"=">>
                                \o encoded(params[at[i]][2])
                /\ \A i, j \in 1..Len(pairs) :
                     i < j => CodeUnitsBefore(params[at[i]][1], params[at[j]][1])
            /\ QueryPartOf(ReturnedBy(n).url) = queryString
            /\ queryString = <<>> => ~Includes(ReturnedBy(n).url, <<"?">>)

\* C25 witness: getSignedRequest was called with { b: '2', a: '1' } and signed
\* a=1&b=2, which is also the query of the URL it returned.
C25_Witness ==
    \E n \in ReturnedCalls :
        /\ QueryParamsOf(n) = << <<<<"b">>, <<"2">> >>, <<<<"a">>, <<"1">> >> >>
        /\ LoggedBy(n).canonicalQueryString = <<"a", "=", "1", "&", "b", "=", "2">>
        /\ QueryPartOf(ReturnedBy(n).url) = <<"a", "=", "1", "&", "b", "=", "2">>

\* The names of the signed-headers list, and the names that start the canonical
\* header lines, of a call that returned.
SignedNamesOf(n) == Split(LoggedBy(n).signedHeaders, ";")
HeaderLineNamesOf(n) ==
    LET lines == Split(LoggedBy(n).canonicalHeaders, "\n")
    IN  [i \in 1..(Len(lines) - 1) |-> Split(lines[i], ":")[1]]

\* names stand in ascending code-unit order.
Ascending(names) ==
    \A i, j \in 1..Len(names) : i < j => ~CodeUnitsBefore(names[j], names[i])

\* C23 (as claimed): for any caller-supplied header map, the names of the
\* signed-headers list and of the canonical header lines are lower-cased and
\* stand in ascending order.
C23_HeadersAscendingByLowerCasedName ==
    \A n \in ReturnedCalls :
        /\ \A i \in 1..Len(SignedNamesOf(n)) :
             SignedNamesOf(n)[i] = ToLowerCase(SignedNamesOf(n)[i])
        /\ Ascending(SignedNamesOf(n))
        /\ HeaderLineNamesOf(n) = SignedNamesOf(n)

\* The headers a call was given.
HeadersOf(n) == OrDefault(signerCalls[n].options.headers, <<>>)

\* C26: the header map getSignedRequest returns has no host header in any letter
\* case; it has Authorization (with the value the signer built), x-amz-date and
\* x-amz-content-sha256; and it has every header the caller gave other than
\* host, with the caller's value unless the caller named it Authorization.
C26_ReturnedHeadersWithoutHost ==
    \A n \in ReturnedCalls :
        LET returned == ReturnedBy(n).headers
            given == HeadersOf(n)
        IN  /\ \A i \in 1..Len(returned) : ToLowerCase(returned[i][1]) # HostName
            /\ HasKey(returned, AuthorizationName)
            /\ SubSeq(ValueOf(returned, AuthorizationName), 1, 1) = algorithm
            /\ HasKey(returned, AmzDateName)
            /\ HasKey(returned, AmzContentName)
            /\ \A i \in 1..Len(given) :
                 ToLowerCase(given[i][1]) # HostName =>
                     /\ HasKey(returned, given[i][1])
                     /\ given[i][1] # AuthorizationName =>
                            ValueOf(returned, given[i][1]) = given[i][2]

\* C26 witness: a caller gave the header 'Host'; the returned map holds
\* x-amz-date, x-amz-content-sha256 and Authorization and nothing else.
C26_Witness ==
    \E n \in ReturnedCalls :
        /\ HasKey(HeadersOf(n), <<"H", "o", "s", "t">>)
        /\ ObjectKeys(ReturnedBy(n).headers)
               = <<AmzDateName, AmzContentName, AuthorizationName>>

\* The calls that were given an undefined credential field.
MissingCredential(n) == \E field \in CredentialFields : signerCalls[n].options[field] = None

\* C24 (as claimed): a call of getSignedRequest with a missing credential field
\* raises an error and returns no signed request.
C24_MissingCredentialRaises ==
    \A n \in 1..Len(signerCalls) :
        MissingCredential(n) =>
            /\ signerCalls[n].outcome.raised # None
            /\ signerCalls[n].outcome.returned = None

---------------------------------------------------------------------------
(* AWS Signature Version 4, as the service prescribes it for a request     *)
(* with the given method, path, query parameters and headers.              *)

\* UriEncode: every character but A-Z a-z 0-9 - _ . ~ becomes %XX, upper-case hex.
SigV4Unreserved == UpperSet \cup LowerSet \cup DigitSet \cup {"-", "_", ".", "~"}
RECURSIVE SigV4UriEncode(_)
SigV4UriEncode(s) ==
    IF s = <<>> THEN <<>>
    ELSE (IF s[1] \in SigV4Unreserved THEN <<s[1]>>
          ELSE <<"%">> \o HexOf(charCodeAt[s[1]]))
         \o SigV4UriEncode(Tail(s))

\* The timestamp, YYYYMMDD'T'HHMMSS'Z', and its date part (January 1970).
SigV4Timestamp(date) ==
    LET seconds == date.time \div 1000
    IN  <<"1", "9", "7", "0", "0", "1">> \o TwoDigits((seconds \div 86400) + 1)
        \o <<"T">> \o TwoDigits((seconds \div 3600) % 24)
        \o TwoDigits((seconds \div 60) % 60) \o TwoDigits(seconds % 60) \o <<"Z">>
SigV4Date(date) ==
    <<"1", "9", "7", "0", "0", "1">> \o TwoDigits((date.time \div 86400000) + 1)

\* Canonical query string: names and values URI-encoded, sorted by encoded name.
SigV4CanonicalQuery(params) ==
    LET names == Sorted([i \in 1..Len(params) |-> SigV4UriEncode(params[i][1])])
    IN  Join([i \in 1..Len(names) |->
                  names[i] \o <<"=">>
                  \o SigV4UriEncode(
                         params[CHOOSE k \in 1..Len(params) :
                                    SigV4UriEncode(params[k][1]) = names[i]][2])],
             <<"&">>)

\* Canonical headers and signed headers: names lower-cased, then sorted; values
\* trimmed, with runs of spaces made one space.
SigV4HeaderNames(headers) == Sorted([i \in 1..Len(headers) |-> ToLowerCase(headers[i][1])])
SigV4CanonicalHeaders(headers) ==
    LET names == SigV4HeaderNames(headers)
    IN  Join([i \in 1..Len(names) |->
                  names[i] \o <<":">>
                  \o CollapseSpaces(Trim(
                         headers[CHOOSE k \in 1..Len(headers) :
                                     ToLowerCase(headers[k][1]) = names[i]][2]))
                  \o <<"\n">>],
             <<>>)
SigV4SignedHeaders(headers) == Join(SigV4HeaderNames(headers), <<";">>)

\* The hex SHA-256 of a text.
SigV4Hash(text) == bufferToHex(digest(encode(Some(text))))

\* The Authorization header of a request to the path-style R2 endpoint.
SigV4Authorization(method, uri, params, headers, date, credentials) ==
    LET request == method \o <<"\n">> \o uri \o <<"\n">>
                   \o SigV4CanonicalQuery(params) \o <<"\n">>
                   \o SigV4CanonicalHeaders(headers) \o <<"\n">>
                   \o SigV4SignedHeaders(headers) \o <<"\n">> \o SigV4Hash(<<>>)
        scope == SigV4Date(date) \o <<"/">> \o credentials.region
                 \o <<"/", "s", "3", "/", "aws4_request">>
        toSign == <<"AWS4-HMAC-SHA256", "\n">> \o SigV4Timestamp(date) \o <<"\n">>
                  \o scope \o <<"\n">> \o SigV4Hash(request)
        kSecret == encode(Some(<<"AWS4">> \o credentials.secretAccessKey))
        kDate == sign(kSecret, encode(Some(SigV4Date(date))))
        kRegion == sign(kDate, encode(Some(credentials.region)))
        kService == sign(kRegion, encode(Some(<<"s", "3">>)))
        kSigning == sign(kService, encode(Some(<<"aws4_request">>)))
    IN  <<"AWS4-HMAC-SHA256", " Credential=">> \o credentials.accessKeyId \o <<"/">>
        \o scope \o <<", ", "SignedHeaders=">> \o SigV4SignedHeaders(headers)
        \o <<", ", "Signature=">> \o bufferToHex(sign(kSigning, encode(Some(toSign))))

\* The list-objects requests among the calls: GET on the bucket's root with every
\* credential field and a valid date, as fetchAllObjects makes them.
ListCalls ==
    {n \in ReturnedCalls :
        /\ signerCalls[n].options.method = <<"G", "E", "T">>
        /\ signerCalls[n].options.path = Some(<<>>)
        /\ signerCalls[n].options.headers = None
        /\ HasKey(QueryParamsOf(n), ListTypeName)
        /\ ~MissingCredential(n)}

\* The date a call signed with.
DateOf(n) == OrDefault(signerCalls[n].options.date, signerCalls[n].now)

\* C22: the Authorization header returned for a GET list-objects request is the
\* one Signature Version 4 prescribes for the request that is sent: the URL's
\* query parameters, and the headers host, x-amz-date (the timestamp) and
\* x-amz-content-sha256 (the hash of the empty payload).
C22_ListRequestSignedAsSigV4 ==
    \A n \in ListCalls :
        LET o == signerCalls[n].options
            sent == << <<HostName, o.accountId[1] \o <<".r2.cloudflarestorage.com">> >>,
                       <<AmzContentName, SigV4Hash(<<>>)>>,
                       <<AmzDateName, SigV4Timestamp(DateOf(n))>> >>
        IN  /\ ValueOf(ReturnedBy(n).headers, AuthorizationName)
                = SigV4Authorization(<<"G", "E", "T">>,
                                     <<"/">> \o o.bucket[1] \o <<"/">>,
                                     QueryParamsOf(n), sent, DateOf(n),
                                     [region |-> o.region[1],
                                      accessKeyId |-> o.accessKeyId[1],
                                      secretAccessKey |-> o.secretAccessKey[1]])
            /\ ValueOf(ReturnedBy(n).headers, AmzDateName) = SigV4Timestamp(DateOf(n))
            /\ ValueOf(ReturnedBy(n).headers, AmzContentName) = SigV4Hash(<<>>)
            /\ QueryPartOf(ReturnedBy(n).url) = SigV4CanonicalQuery(QueryParamsOf(n))

\* C22 witness: a list request with the prefix 'd (1)/' was signed; its query is
\* percent-encoded and its Authorization header names the access key and the
\* signed headers.
C22_Witness ==
    \E n \in ListCalls :
        /\ HasKey(QueryParamsOf(n), PrefixName)
        /\ ValueOf(QueryParamsOf(n), PrefixName) = <<"d", " ", "(", "1", ")", "/">>
        /\ LET auth == ValueOf(ReturnedBy(n).headers, AuthorizationName)
           IN  /\ SubSeq(auth, 1, 5) = <<"AWS4-HMAC-SHA256", " Credential=", "i", "d", "/">>
               /\ Includes(auth, <<"SignedHeaders=", "h", "o", "s", "t", ";", "x">>)
        /\ Includes(ReturnedBy(n).url,
                    <<"p", "r", "e", "f", "i", "x", "=", "d", "%", "2", "0", "%", "2", "8",
                      "1", "%", "2", "9", "%", "2", "F">>)

---------------------------------------------------------------------------
(* Repeated calls of getSignedRequest.                                     *)

\* The inputs of a call other than the date.
InputsOf(n) == [signerCalls[n].options EXCEPT !.date = None]

====
